---------------------------- MODULE Spec2Model ----------------------------
(***************************************************************************)
(* cpan123: paginated listing, path resolution and recursive traversal of  *)
(* a remote directory tree (FileList.py, File.py, Downloader.py), and the   *)
(* uploads of Uploader.py.                                                 *)
(*                                                                         *)
(* The module holds one specification per operation family:                *)
(*   SpecList  FileList.get_file_list_v2 against one paginated directory   *)
(*   SpecFind  Downloader._find_file_by_path against a static remote tree  *)
(*   SpecWalk  FileList.recursive_list_v1 / recursive_list_v2 (sequential   *)
(*             and thread pool) against a static remote structure          *)
(*   SpecWalkFair  SpecWalk with weak fairness of its steps                *)
(*   SpecWalkInt  SpecWalk with a KeyboardInterrupt raised during the walk *)
(*   SpecDl    Downloader.download_folder: the subtree walk _get_file_list *)
(*   SpecUp    Uploader.upload_file_chunked: create, slices, polling       *)
(*   SpecDisp  Uploader.upload / upload_folder: the choice of uploader     *)
(***************************************************************************)
EXTENDS Integers, Sequences, FiniteSets, Bags, TLC

\* ------------------------------------------------------------------ bounds
\* pages of one directory, raw entries of one page, retry budgets tried
MaxPages == 2
MaxPageLen == 2
MaxTries == 2
\* segments of a resolved path; pages of a directory and raw entries of a
\* page that the resolver reads
MaxSegs == 2
MaxFindPages == 3
MaxFindPageLen == 1
\* directories of the structure walked; the largest max_workers tried
MaxDirs == 3
MaxWorkers == 2
\* directories of a downloaded folder, files of one directory
MaxDlDirs == 3
MaxDlFiles == 1
\* bytes of an uploaded file, the largest slice_size argument, the largest
\* poll_timeout_sec, and the longest an upload_complete request takes (seconds)
MaxSize == 4
MaxSlice == 3
MaxTimeout == 4
MaxDelay == 1
\* files of an uploaded directory, the largest max_workers of upload_folder
MaxUpFiles == 2
MaxUpWorkers == 2
\* files that download_folder goes on to download
MaxGetFiles == 3
\* ensure_remote_dir: segments of the path, entries of the remote tree
\* before the calls, entries of one listing page (limit, 100 in the source),
\* max_tries of _get_file_list_v2_by_part (20 in the source)
MaxEnsSegs == 2
MaxEnsInit == 2
MaxEnsPage == 1
MaxEnsTries == 2
\* items of one rapid payload
MaxRapidItems == 2
\* write calls json.dump needs for one document
MaxChunks == 2

\* ------------------------------------------------------------- python values
\* Python's None, and a present value, as sequences of length 0 and 1
None == <<>>
Some(v) == <<v>>

\* lastFileId of the final page (File.py / FileList.py: the -1 sentinel)
EndCursor == -1

RECURSIVE SeqConcat(_)
SeqConcat(ss) == IF ss = <<>> THEN <<>> ELSE Head(ss) \o SeqConcat(Tail(ss))

\* all sequences over S of length 0..n
SeqsUpTo(S, n) == UNION {[1..k -> S] : k \in 0..n}

VARIABLES
  \* ---- FileList.get_file_list_v2
  pages,          \* the directory on the backend: its pages of raw entries
  max_tries,      \* argument
  l_pc,           \* "while" | "after" | "returned"
  last_file_id,   \* local: None or Some(cursor)
  tries,          \* local
  resjsons,       \* local accumulator [code, total, fileList]
  l_ret,          \* the returned dict, None before the return
  slept,          \* the last time.sleep of the call, in tenths of a second
  streak,         \* history: failed attempts since the last accepted page
  l_failed,       \* history: some attempt of this call failed
  l_requests      \* history: listing requests issued by this call

listVars == <<pages, max_tries, l_pc, last_file_id, tries, resjsons, l_ret,
              slept, streak, l_failed, l_requests>>

VARIABLES
  \* ---- Downloader._find_file_by_path
  parts,          \* argument: the segments of cloud_path after the root
  is_dir,         \* argument
  f_pc,           \* "idle" | "scan" | "returned"
  index,          \* loop variable of the for loop (0-based)
  current_id,     \* local
  current_item,   \* local: None or Some(item)
  f_last_file_id, \* local last_file_id of the while loop
  f_ret,          \* the returned pair, None before the return
  \* the directory current_id on the backend, as far as it has been served
  f_served,       \* pages of the directory served so far
  f_exhausted,    \* the page with lastFileId = -1 has been served
  f_refDir,       \* first live directory named parts[index] served so far
  f_refFile,      \* first live file named parts[index] served so far
  f_blank,        \* a page with no live entry was served before any wanted entry
  \* history of the call
  f_requests,     \* list_v2 requests issued
  f_missAt,       \* None, or Some(f_requests) when a segment ended unmatched
  f_agree         \* every entry taken so far was the directory's first wanted one

findVars == <<parts, is_dir, f_pc, index, current_id, current_item, f_last_file_id,
              f_ret, f_served, f_exhausted, f_refDir, f_refFile,
              f_blank, f_requests, f_missAt, f_agree>>

VARIABLES
  \* ---- FileList.recursive_list_v1 / recursive_list_v2
  w_fn,           \* "v1" | "v2": the method called
  w_kids,         \* the remote structure: directory id -> the ids of the
                  \* type-1 items of its listing, in listing order
  w_trouble,      \* what goes wrong in this run: None, or Some(<<kind, dir>>)
                  \* with kind "code" | "exc" | "nosave"
  depth,          \* argument
  max_workers,    \* argument (recursive_list_v2)
  w_pc,           \* "idle" | "enter" | "v1" | "seq" | "pool" | "done" | "raised"
                  \* | "shutdown" | "interrupted"
  stack,          \* v1: the frames of the recursion; v2: the list "stack"
  w_queued,       \* bag of tasks submitted to the executor, waiting for a thread
  w_running,      \* bag of tasks a worker thread is processing
  w_finished,     \* bag of tasks whose future is done and still in future_map
  \* history of the walk
  w_listed,       \* bag of <<dir, depth>>: the listing calls made
  w_saved,        \* bag of <<dir, depth>>: the JSON files written
  w_aborted,      \* the outer handler ended the walk
  w_overlap       \* two worker threads were processing at the same time

walkVars == <<w_fn, w_kids, w_trouble, depth, max_workers, w_pc, stack,
              w_queued, w_running, w_finished, w_listed, w_saved, w_aborted,
              w_overlap>>

VARIABLES
  \* ---- Downloader.download_folder and Downloader._get_file_list
  dl_tree,        \* the remote folder: directory id -> the items of its listing
  dl_trouble,     \* None, or Some(<<kind, dir>>): the listing request for dir
                  \* answers without "data" ("nodata") or raises ("raise")
  dl_pc,          \* "idle" | "enter" | "walk" | "listed" | "done" | "raised"
  dl_stack,       \* the calls of _get_file_list in progress: for each, the
                  \* items its for loop has left and its file_list so far
  dl_file_list,   \* download_folder: file_list, what _get_file_list returned
  files_to_download  \* download_folder: the files it goes on to download

dlVars == <<dl_tree, dl_trouble, dl_pc, dl_stack, dl_file_list, files_to_download>>

VARIABLES
  \* ---- a KeyboardInterrupt during a walk
  w_late          \* bag of tasks whose listing began after the interrupt

intVars == <<w_late>>

VARIABLES
  \* ---- Uploader.upload_file_chunked
  size,             \* path.stat().st_size; byte i of the file has value i
  slice_size,       \* argument: None or Some(n)
  server,           \* argument: None or Some(name)
  poll_timeout_sec, \* argument
  u_resp,           \* the response of file2.create for this file
  u_pc,             \* "idle" | "create" | "slices" | "poll" | "returned"
                    \* | "RuntimeError" | "TimeoutError" | "raised"
  preuploadID,      \* local
  real_slice,       \* local
  upload_server,    \* local
  total_parts,      \* local
  part_no,          \* loop variable of the slice loop: the next part
  u_pos,            \* position of the open file f
  u_elapsed,        \* time.time() - start, in seconds
  u_ret,            \* None, or Some(the returned data)
  \* history of the call
  u_slices,         \* the slice requests issued, in order
  u_part_failed,    \* a slice request raised or answered a non-zero code
  u_completes,      \* number of upload_complete requests issued
  u_done            \* None, or Some(the last upload_complete response)

upVars == <<size, slice_size, server, poll_timeout_sec, u_resp, u_pc, preuploadID,
            real_slice, upload_server, total_parts, part_no, u_pos, u_elapsed,
            u_ret, u_slices, u_part_failed, u_completes, u_done>>

VARIABLES
  \* ---- Uploader.upload and Uploader.upload_folder: the choice of uploader
  d_call,             \* "upload" | "upload_folder": the method called
  d_is_dir,           \* the path is a directory (upload_folder: always)
  d_files,            \* the sizes of the files: those of the directory, or
                      \* the one file given
  method,             \* upload_folder argument
  single_limit_bytes, \* upload_folder argument
  d_pc,               \* "idle" | "enter" | "pool" | "done"
  d_how,              \* per file: "" before its dispatch, then "chunked",
                      \* "single", or "failed" (recorded as a failed file)
  d_workers,          \* upload_folder argument max_workers
  d_running,          \* the files whose _task a worker thread is running
  d_results,          \* upload_folder: results, pairs <<file, item>>
  d_report,           \* None, or Some(what upload_folder returned)
  d_end               \* history, per file: "" | "error" | "completed" | "reuse",
                      \* how the upload of the file ended

dispVars == <<d_call, d_is_dir, d_files, method, single_limit_bytes, d_pc, d_how,
              d_workers, d_running, d_results, d_report, d_end>>

VARIABLES
  \* ---- Downloader.download_folder (its download loop) and download_file
  g_call,         \* "download_folder" | "download_file"
  overwrite,      \* argument
  g_files,        \* download_folder: the number of files in files_to_download;
                  \* file i is the i-th of them (download_file: 1)
  g_local,        \* per file, its local target path: "absent" | "old" | "new"
  g_pc,           \* "idle" | "loop" | "returned"
  g_next,         \* the file the for loop is at
  g_succeeded,    \* local succeeded
  g_failed,       \* local failed
  g_results,      \* local results: per processed file [file, status]
  g_ret,          \* None, or Some(the value returned)
  \* history of the call
  g_finds,        \* number of _find_file_by_path calls of download_file
  g_links,        \* the files a download-link request was issued for
  g_transfers     \* the files a transfer was started for

getVars == <<g_call, overwrite, g_files, g_local, g_pc, g_next, g_succeeded,
             g_failed, g_results, g_ret, g_finds, g_links, g_transfers>>

VARIABLES
  \* ---- FileList.ensure_remote_dir, called by two callers
  e_entries,        \* the remote tree: entries in the order of their ids
  e_path,           \* argument of both calls: the segments (parts)
  e_pc,             \* per call: "idle" | "lookup" | "create" | "done" | "raised"
  e_seg,            \* per call: position of the for loop in parts
  e_current_parent, \* per call: local current_parent
  e_last_file_id,   \* per call: last_file_id of _get_file_list_v2_by_part
  e_tries,          \* per call: tries of _get_file_list_v2_by_part
  e_ret,            \* per call: None or Some(the id returned)
  \* history
  e_init,           \* number of entries the tree had before the calls
  e_creates,        \* the create-directory requests issued, in order
  e_failures,       \* per call: some request of the call failed
  e_gaveup,         \* per call: a lookup ended because tries reached max_tries
  e_overlap         \* a call began while the other one was running

ensVars == <<e_entries, e_path, e_pc, e_seg, e_current_parent, e_last_file_id,
             e_tries, e_ret, e_init, e_creates, e_failures, e_gaveup, e_overlap>>

VARIABLES
  \* ---- FileList.rapid / _upload_one, File.trash
  r_call,         \* "rapid" | "trash" | "list_v2"
  r_shape,        \* rapid: the key under which data carries its items
  r_items,        \* rapid: the items of data
  r_ids,          \* trash: len(fileIDs); list_v2: limit
  r_pc,           \* "idle" | "enter" | "items" | "returned" | "raised" | "exited"
  r_next,         \* the item _upload_one is called for
  r_attempt,      \* _upload_one: attempt
  r_results,      \* rapid: results
  r_ret,          \* None or Some(the dict returned)
  \* history
  r_creates,      \* the items a create request was sent for, one per request
  r_answers,      \* the answers to the create requests, one per answer
  r_requests      \* number of backend requests of File.trash / File.list_v2

rapidVars == <<r_call, r_shape, r_items, r_ids, r_pc, r_next, r_attempt, r_results,
               r_ret, r_creates, r_answers, r_requests>>

VARIABLES
  \* ---- FileList._save_json_safely
  s_name,         \* json_path.name, cut at its dots
  s_long,         \* the name is longer than max_bytes
  s_doc,          \* the number of write calls the document takes
  s_fs,           \* the directory: path -> None (absent) or Some(content);
                  \* (Doc(k), OldContent or StaleContent)
  s_pc,           \* "idle" | "start" | "open" | "write" | "rename" |
                  \* "returned" | "interrupted"
  s_ret,          \* None or Some(the value returned)
  s_before        \* history: what the destination held before the call

saveVars == <<s_name, s_long, s_doc, s_fs, s_pc, s_ret, s_before>>

VARIABLES
  \* ---- authtype.Jwt
  j_client,       \* client_id and client_secret are both set
  j_access_token, \* self.access_token; "" when none is stored
  j_expires_at,   \* self.expires_at, seconds
  j_env,          \* <<ACCESS_TOKEN, EXPIRES_AT>> of the .env file
  j_now,          \* time.time(), seconds
  j_pc,           \* "idle" | "ready"
  j_last          \* history: None or Some(the last call and what it met)

jwtVars == <<j_client, j_access_token, j_expires_at, j_env, j_now, j_pc, j_last>>

VARIABLES
  \* ---- Downloader: the remote path of a call
  p_call,         \* "download" | "download_file" | "download_folder"
  p_remote,       \* remote_path, a sequence of characters
  p_cloud,        \* None, or Some(cloud_path) once it is resolved
  p_pc            \* "idle" | "enter" | "resolved" | "ValueError"

pathVars == <<p_call, p_remote, p_cloud, p_pc>>

vars == <<listVars, findVars, walkVars, dlVars, intVars, upVars, dispVars, getVars,
          ensVars, rapidVars, saveVars, jwtVars, pathVars>>

\* what the actions of one family leave alone
notList == <<findVars, walkVars, dlVars, intVars, upVars, dispVars, getVars, ensVars, rapidVars, saveVars,
             jwtVars, pathVars>>
notFind == <<listVars, walkVars, dlVars, intVars, upVars, dispVars, getVars, ensVars, rapidVars, saveVars,
             jwtVars, pathVars>>
notWalk == <<listVars, findVars, dlVars, intVars, upVars, dispVars, getVars, ensVars, rapidVars, saveVars,
             jwtVars, pathVars>>
notDl == <<listVars, findVars, walkVars, intVars, upVars, dispVars, getVars, ensVars, rapidVars, saveVars,
             jwtVars, pathVars>>
notWalkInt == <<listVars, findVars, dlVars, upVars, dispVars, getVars, ensVars, rapidVars, saveVars,
             jwtVars, pathVars>>
notUp == <<listVars, findVars, walkVars, dlVars, intVars, dispVars, getVars, ensVars, rapidVars, saveVars,
             jwtVars, pathVars>>
notGet == <<listVars, findVars, walkVars, dlVars, intVars, upVars, dispVars, ensVars, rapidVars, saveVars,
             jwtVars, pathVars>>
notEns == <<listVars, findVars, walkVars, dlVars, intVars, upVars, dispVars, getVars, rapidVars, saveVars,
             jwtVars, pathVars>>
notRapid == <<listVars, findVars, walkVars, dlVars, intVars, upVars, dispVars, getVars, ensVars, saveVars,
             jwtVars, pathVars>>
notSave == <<listVars, findVars, walkVars, dlVars, intVars, upVars, dispVars, getVars, ensVars,
             rapidVars, jwtVars, pathVars>>
notJwt == <<listVars, findVars, walkVars, dlVars, intVars, upVars, dispVars, getVars, ensVars,
            rapidVars, saveVars, pathVars>>
notPath == <<listVars, findVars, walkVars, dlVars, intVars, upVars, dispVars, getVars, ensVars,
             rapidVars, saveVars, jwtVars>>
notDisp == <<listVars, findVars, walkVars, dlVars, intVars, upVars, getVars, ensVars, rapidVars, saveVars,
             jwtVars, pathVars>>

\* ======================================================================
\* The backend directory of SpecList: page i of n carries raw entries and
\* lastFileId = i (an opaque cursor) for i < n, and -1 for i = n.
\* ======================================================================
\* raw entry k of the directory: ids in listing order
RawEntry(id, t) == [fileId |-> id, trashed |-> t]

\* trashed flags of the pages -> pages of entries with consecutive ids
RECURSIVE MkPages(_, _)
MkPages(flagPages, nextId) ==
  IF flagPages = <<>> THEN <<>>
  ELSE LET fp == Head(flagPages)
       IN  <<[i \in 1..Len(fp) |-> RawEntry(nextId + i - 1, fp[i])]>>
           \o MkPages(Tail(flagPages), nextId + Len(fp))

\* a page that carries a cursor holds at least one raw entry
FlagPages ==
  {fps \in UNION {[1..n -> SeqsUpTo({0, 1}, MaxPageLen)] : n \in 1..MaxPages} :
     \A i \in 1..(Len(fps) - 1) : fps[i] # <<>>}

Directories == {MkPages(fps, 1) : fps \in FlagPages}

\* the page the backend serves for a cursor (None: the first page)
PageIndex(cursor) == IF cursor = None THEN 1 ELSE cursor[1] + 1
CursorOf(ps, i) == IF i = Len(ps) THEN EndCursor ELSE i

\* the response envelope of the raw endpoint for a well-formed answer
RawResponse(ps, cursor) ==
  LET i == PageIndex(cursor)
  IN  [code |-> 0, data |-> [fileList |-> ps[i], lastFileId |-> CursorOf(ps, i)]]

\* File.list_v2 with isTrashed = False: entries with trashed == 0 are kept
NotTrashed(e) == e.trashed = 0
ListV2(resp) ==
  [resp EXCEPT !.data.fileList = SelectSeq(resp.data.fileList, NotTrashed)]

\* ======================================================================
\* FileList.get_file_list_v2
\* ======================================================================
\* the compatibility alias added to every accepted item
WithFileID(e) == [fileId |-> e.fileId, trashed |-> e.trashed, fileID |-> e.fileId]
\* an accepted item without the alias: the entry as the backend sent it
Backend(e) == [fileId |-> e.fileId, trashed |-> e.trashed]

EmptyResult == [code |-> 0, total |-> 0, fileList |-> <<>>]
FailedResult == [code |-> -1, total |-> 0, fileList |-> <<>>]

ListStart ==
  /\ pages \in Directories
  /\ max_tries \in 0..MaxTries
  /\ l_pc = "while"
  /\ last_file_id = None
  /\ tries = 0
  /\ resjsons = EmptyResult
  /\ l_ret = None
  /\ slept = 0
  /\ streak = 0
  /\ l_failed = FALSE
  /\ l_requests = 0

\* the ways one attempt fails: the response has code 429; it is empty, has a
\* non-zero code or no dict under "data"; data.fileList is not a list;
\* _safe_list_v2 raised
FailKinds == {"429", "bad", "notlist", "raised"}

\* time.sleep of a failed attempt, in tenths of a second (t: tries before it)
SleepOf(kind, t) ==
  CASE kind = "429" -> 9 + 20 * t
    [] kind = "bad" -> 20 * (t + 2)
    [] kind = "notlist" -> 20
    [] kind = "raised" -> 20 * (t + 2)

\* "tries += 1" of a failed attempt
TriesAfterFailureSame(t) == t
TriesAfterFailure(t) == t + 1

\* one failed attempt: the counter moves, nothing is accepted
ListFailedAttempt ==
  /\ l_pc = "while"
  /\ tries < max_tries
  /\ \E kind \in FailKinds : slept' = SleepOf(kind, tries)
  /\ tries' = TriesAfterFailure(tries)
  /\ streak' = streak + 1
  /\ l_failed' = TRUE
  /\ l_requests' = l_requests + 1
  /\ UNCHANGED <<pages, max_tries, l_pc, last_file_id, resjsons, l_ret>>
  /\ UNCHANGED notList

\* the counter after an accepted page
TriesAfterAcceptKept == tries
TriesAfterAccept == 0

\* the first-page test of the empty-directory return
IsFirstRequest == last_file_id = None

\* a well-formed answer (code 0, data a dict, fileList a list)
ListPage ==
  /\ l_pc = "while"
  /\ tries < max_tries
  /\ PageIndex(last_file_id) \in 1..Len(pages)
  /\ LET resjson == ListV2(RawResponse(pages, last_file_id))
         file_list == resjson.data.fileList
     IN  IF file_list = <<>> /\ IsFirstRequest
         THEN \* "empty directory": return resjsons
              /\ l_ret' = Some(resjsons)
              /\ l_pc' = "returned"
              /\ streak' = 0
              /\ UNCHANGED <<last_file_id, tries, resjsons>>
         ELSE /\ tries' = TriesAfterAccept
              /\ streak' = 0
              /\ resjsons' = [resjsons EXCEPT
                    !.fileList = @ \o [i \in 1..Len(file_list) |-> WithFileID(file_list[i])],
                    !.total = @ + Len(file_list)]
              /\ last_file_id' = Some(resjson.data.lastFileId)
              /\ l_pc' = IF resjson.data.lastFileId = EndCursor THEN "after" ELSE "while"
              /\ UNCHANGED l_ret
  /\ l_requests' = l_requests + 1
  /\ UNCHANGED <<pages, max_tries, slept, l_failed>>
  /\ UNCHANGED notList

\* while tries < max_tries: the condition is false
ListLoopExit ==
  /\ l_pc = "while"
  /\ tries >= max_tries
  /\ l_pc' = "after"
  /\ UNCHANGED <<pages, max_tries, last_file_id, tries, resjsons, l_ret, slept, streak,
                 l_failed, l_requests>>
  /\ UNCHANGED notList

\* after the loop: the failure dict when the budget is spent, else resjsons
ListReturn ==
  /\ l_pc = "after"
  /\ l_ret' = Some(IF tries >= max_tries THEN FailedResult ELSE resjsons)
  /\ l_pc' = "returned"
  /\ UNCHANGED <<pages, max_tries, last_file_id, tries, resjsons, slept, streak, l_failed,
                 l_requests>>
  /\ UNCHANGED notList

\* no call of get_file_list_v2 in progress
ListIdle ==
  /\ pages = <<>>
  /\ max_tries = 0
  /\ l_pc = "idle"
  /\ last_file_id = None
  /\ tries = 0
  /\ resjsons = EmptyResult
  /\ l_ret = None
  /\ slept = 0
  /\ streak = 0
  /\ l_failed = FALSE
  /\ l_requests = 0

\* ---------------------------------------------------------------- claims
\* what a complete listing of the directory is: the entries with trashed = 0
\* of every page, in backend order
ExpectedList(ps) == SeqConcat([i \in 1..Len(ps) |-> SelectSeq(ps[i], NotTrashed)])

ReturnedList == [i \in 1..Len(l_ret[1].fileList) |-> Backend(l_ret[1].fileList[i])]

\* C1: when every response is well-formed, get_file_list_v2 returns code 0,
\* data.fileList = the non-trashed entries of all pages in backend order, each
\* once, and data.total = the length of that list; also when an early page has
\* no non-trashed entry but a cursor other than -1.
C1_ListReturnsEveryPage ==
  (l_pc = "returned" /\ ~l_failed) =>
     /\ l_ret[1].code = 0
     /\ ReturnedList = ExpectedList(pages)
     /\ l_ret[1].total = Len(ExpectedList(pages))

\* the first page of the directory has no entry left after the trashed filter
LegitimatelyEmpty == Len(pages) >= 1 /\ SelectSeq(pages[1], NotTrashed) = <<>>

\* C2: code -1 is returned if and only if max_tries consecutive attempts
\* failed; an empty directory that answered is returned as code 0 with an
\* empty fileList.
C2_FailureIffBudgetSpent ==
  l_pc = "returned" =>
     /\ l_ret[1].code \in {0, -1}
     /\ (l_ret[1].code = -1) <=> (streak = max_tries)
     /\ (LegitimatelyEmpty /\ streak < max_tries) =>
           (l_ret[1].code = 0 /\ l_ret[1].fileList = <<>> /\ l_ret[1].total = 0)

\* a listing that failed after pages had been accepted: the budget was spent
\* by max_tries failures in a row that followed a reset of the counter
C2_Witness ==
  /\ l_pc = "returned"
  /\ l_ret[1].code = -1
  /\ resjsons.total > 0
  /\ max_tries > 1

\* C33: on a directory of P pages get_file_list_v2 returns code 0 or code
\* -1 after at most P * max_tries listing requests, whatever the
\* interleaving of failed and successful responses.
C33_RequestsBounded ==
  /\ l_requests <= Len(pages) * max_tries
  /\ l_pc = "returned" => l_ret[1].code \in {0, -1}

\* the bound is met: every page took max_tries requests
C33_Witness ==
  /\ l_pc = "returned"
  /\ l_ret[1].code = 0
  /\ Len(pages) = MaxPages /\ max_tries = MaxTries
  /\ l_requests = MaxPages * MaxTries

\* C34: on consecutive failures of get_file_list_v2 the wait before each
\* further retry is double the wait before the previous one, and at most
\* max_tries attempts are made in a row.
C34_ExponentialBackoff ==
  /\ [](streak <= max_tries)
  /\ [][(streak >= 1 /\ streak' = streak + 1) => slept' = 2 * slept]_vars

\* C29: the attempt counter is reset to 0 after every accepted page, so the
\* listing fails only when max_tries failures occur in a row; a call in
\* which attempts failed, but never max_tries in a row, still returns the
\* complete listing.
C29_TransientFailuresHarmless ==
  /\ (l_pc = "returned" /\ l_ret[1].code = -1) => streak = max_tries
  /\ (l_pc = "returned" /\ l_failed /\ streak < max_tries) =>
        /\ l_ret[1].code = 0
        /\ ReturnedList = ExpectedList(pages)
        /\ l_ret[1].total = Len(ExpectedList(pages))

\* ======================================================================
\* Downloader._find_file_by_path
\*
\* The remote tree is static. The resolver asks for every (directory, cursor)
\* at most once and in page order (the request guard below), so the page a
\* cursor yields is drawn when that cursor is first served: each behaviour
\* is a behaviour on the static tree made of the pages drawn. After the
\* call has returned, FindRevealRest serves the pages of the last directory
\* the call did not ask for, so that what the directory holds is known.
\* ======================================================================
Names == {"a", "b"}
\* the paths resolved: /a, /a/b, /a/b/a, ... (entries carry every name)
SegmentAt(i) == IF i % 2 = 1 THEN "a" ELSE "b"
Paths == {[i \in 1..n |-> SegmentAt(i)] : n \in 1..MaxSegs}

\* "type" 1: directory, 0: file; "trashed" 1: in the recycle bin
EntryShapes == [filename : Names, type : {0, 1}, trashed : {0, 1}]
PageShapes == SeqsUpTo(EntryShapes, MaxFindPageLen)

\* fileIds are unique in the tree: level, page and place of the entry
EntryId(level, page, i) == 100 * (level + 1) + 10 * page + i

MkEntries(shapes, level, page) ==
  [i \in 1..Len(shapes) |->
     [fileId |-> EntryId(level, page, i), filename |-> shapes[i].filename,
      type |-> shapes[i].type, trashed |-> shapes[i].trashed]]

\* the first of the elements that pass a test: None or Some(element)
FirstMatch(hits) == IF hits = <<>> THEN None ELSE Some(Head(hits))

NotFoundPair == <<None, None>>

\* the kind of entry the segment at idx must resolve to
WantedType(idx) ==
  IF idx < Len(parts) - 1 THEN 1 ELSE IF is_dir THEN 1 ELSE 0

\* what the directory holds for the segment, by the pages served so far
RefWanted == IF WantedType(index) = 1 THEN f_refDir ELSE f_refFile

FindStart ==
  /\ parts \in Paths
  /\ is_dir \in BOOLEAN
  /\ f_pc = "scan"
  /\ index = 0
  /\ current_id = 0
  /\ current_item = None
  /\ f_last_file_id = None
  /\ f_ret = None
  /\ f_served = 0
  /\ f_exhausted = FALSE
  /\ f_refDir = None
  /\ f_refFile = None
  /\ f_blank = FALSE
  /\ f_requests = 0
  /\ f_missAt = None
  /\ f_agree = TRUE

\* no call of _find_file_by_path in progress
FindIdle ==
  /\ parts = <<>>
  /\ is_dir = FALSE
  /\ f_pc = "idle"
  /\ index = 0
  /\ current_id = 0
  /\ current_item = None
  /\ f_last_file_id = None
  /\ f_ret = None
  /\ f_served = 0
  /\ f_exhausted = FALSE
  /\ f_refDir = None
  /\ f_refFile = None
  /\ f_blank = FALSE
  /\ f_requests = 0
  /\ f_missAt = None
  /\ f_agree = TRUE

\* the pages the backend may serve next for the directory being read:
\* a page that carries a cursor holds at least one raw entry, and the
\* directory has at most MaxFindPages pages
NextPages ==
  {pl \in PageShapes \X BOOLEAN :
     /\ (pl[1] = <<>> => pl[2])
     /\ (f_served + 1 >= MaxFindPages => pl[2])}

\* first live directory / file of that name in a raw page
LiveDirNamed(raw, name) ==
  LET T(e) == e.filename = name /\ e.trashed = 0 /\ e.type = 1
  IN  FirstMatch(SelectSeq(raw, T))
LiveFileNamed(raw, name) ==
  LET T(e) == e.filename = name /\ e.trashed = 0 /\ e.type = 0
  IN  FirstMatch(SelectSeq(raw, T))

\* the backend serves one more page of the directory of segment index
ServePage(raw, last) ==
  LET name == parts[index + 1]
      refDir == IF f_refDir # None THEN f_refDir ELSE LiveDirNamed(raw, name)
      refFile == IF f_refFile # None THEN f_refFile ELSE LiveFileNamed(raw, name)
  IN  /\ f_served' = f_served + 1
      /\ f_exhausted' = last
      /\ f_refDir' = refDir
      /\ f_refFile' = refFile
      /\ f_blank' = (f_blank \/ (RefWanted = None /\ SelectSeq(raw, NotTrashed) = <<>>))

\* the condition under which an item of the page is taken (the for loop body)
IsMatch(item, name, idx) ==
  /\ item.filename = name
  /\ item.trashed = 0
  /\ ~(idx < Len(parts) - 1 /\ item.type # 1)
  /\ ~(idx = Len(parts) - 1 /\ item.type # (IF is_dir THEN 1 ELSE 0))

\* "if not file_list: break"
StopsOnPage(file_list) == file_list = <<>>

\* "if not found: return None, None"
MissContinues == FALSE
MissReturns == TRUE

\* one iteration of "while True": a list_v2 request and the scan of its page,
\* with what follows it in the for loop (next segment, or a return)
FindRequest ==
  /\ f_pc = "scan"
  /\ PageIndex(f_last_file_id) = f_served + 1
  /\ UNCHANGED <<parts, is_dir>>
  /\ f_requests' = f_requests + 1
  /\ \E pl \in NextPages :
       LET raw == MkEntries(pl[1], index, f_served + 1)
           cursor == IF pl[2] THEN EndCursor ELSE f_served + 1
           resjson == ListV2([code |-> 0, data |-> [fileList |-> raw, lastFileId |-> cursor]])
           file_list == resjson.data.fileList
           name == parts[index + 1]
           M(item) == IsMatch(item, name, index)
           hit == IF StopsOnPage(file_list) THEN None ELSE FirstMatch(SelectSeq(file_list, M))
           found == hit # None
           \* the while loop goes on: no match, a non-empty page, a cursor
           again == ~found /\ ~StopsOnPage(file_list) /\ cursor # EndCursor
           \* the for loop goes on to the next segment
           onward == (found \/ ~MissReturns) /\ index + 1 < Len(parts)
       IN  /\ current_id' = IF found THEN hit[1].fileId ELSE current_id
           /\ current_item' = IF found THEN hit ELSE current_item
           /\ f_missAt' = IF ~found /\ ~again /\ f_missAt = None
                          THEN Some(f_requests + 1) ELSE f_missAt
           /\ IF again
              THEN /\ ServePage(raw, pl[2])
                   /\ f_last_file_id' = Some(cursor)
                   /\ UNCHANGED <<f_pc, index, f_ret, f_agree>>
              ELSE IF onward
              THEN \* next segment: a directory not read so far
                   /\ index' = index + 1
                   /\ f_last_file_id' = None
                   /\ f_served' = 0
                   /\ f_exhausted' = FALSE
                   /\ f_refDir' = None
                   /\ f_refFile' = None
                   /\ f_blank' = FALSE
                   /\ f_agree' = (f_agree /\ found /\
                                  hit = (IF f_refDir # None THEN f_refDir
                                         ELSE LiveDirNamed(raw, name)))
                   /\ UNCHANGED <<f_pc, f_ret>>
              ELSE \* the call returns
                   /\ ServePage(raw, pl[2])
                   /\ UNCHANGED index
                   /\ f_pc' = "returned"
                   /\ f_ret' = Some(IF found \/ ~MissReturns
                                    THEN <<Some(current_id'), current_item'>>
                                    ELSE NotFoundPair)
                   /\ f_agree' = (f_agree /\ (found => hit = RefWanted'))
                   /\ f_last_file_id' = IF found \/ StopsOnPage(file_list)
                                        THEN f_last_file_id ELSE Some(cursor)
  /\ UNCHANGED notFind

\* the backend's remaining pages of the directory the call stopped in
FindRevealRest ==
  /\ f_pc = "returned"
  /\ ~f_exhausted
  /\ \E pl \in NextPages : ServePage(MkEntries(pl[1], index, f_served + 1), pl[2])
  /\ UNCHANGED <<parts, is_dir, f_pc, index, current_id, current_item, f_last_file_id,
                 f_ret, f_requests, f_missAt, f_agree>>
  /\ UNCHANGED notFind


\* ---------------------------------------------------------------- claims
FindReturned == f_pc = "returned"
FindNotFound == f_ret = Some(NotFoundPair)
AtLastSegment == index = Len(parts) - 1

\* the entry taken for the last segment is the one the call returns
ReturnsEntry(ref) == f_ret = Some(<<Some(ref[1].fileId), ref>>)

\* C3: the call returns the id and entry reached by following the segments
\* from root 0 through live directories to a live entry of the requested kind,
\* and (None, None) exactly when some segment has no such entry.
C3_ResolvesPath ==
  (FindReturned /\ f_exhausted) =>
     /\ (RefWanted = None) => FindNotFound
     /\ (AtLastSegment /\ RefWanted # None) => (f_agree /\ ReturnsEntry(RefWanted))
     /\ ~FindNotFound => (AtLastSegment /\ f_agree /\ RefWanted # None)

\* C4: with a live file and a live directory of the segment's name in one
\* directory, is_dir = true yields the directory and is_dir = false the file;
\* every entry descended into is a directory, the first live one of that name.
C4_TypeDisambiguation ==
  /\ f_agree
  /\ (index > 0 /\ current_item # None /\ ~FindReturned) => current_item[1].type = 1
  /\ (FindReturned /\ f_exhausted /\ AtLastSegment /\ f_refDir # None /\ f_refFile # None) =>
        ReturnsEntry(IF is_dir THEN f_refDir ELSE f_refFile)

\* C5: once a segment has ended without a match the call returns not-found;
\* no list_v2 request is issued after that point.
C5_NoRequestAfterMiss ==
  f_missAt # None => (f_requests = f_missAt[1] /\ FindReturned /\ FindNotFound)

\* a miss on a segment that is not the last: later segments were never read
C5_Witness ==
  /\ f_missAt # None
  /\ FindReturned
  /\ index < Len(parts) - 1
  /\ f_requests > 1

\* C6: the pages of a parent are requested until a match or lastFileId = -1;
\* a wanted entry on a later page is found even when an earlier page has no
\* entry left after the trashed ones are dropped.
C6_ScansPastBlankPage ==
  (FindReturned /\ f_exhausted /\ AtLastSegment /\ f_blank) =>
     (FindNotFound => RefWanted = None)


\* ======================================================================
\* FileList.recursive_list_v1 and recursive_list_v2
\*
\* The walk sees the remote structure through its listing calls: w_kids[d]
\* is what the listing of directory d names as sub-directories. A tree, or
\* a tree with one more item that links a directory back to itself or to
\* one of its ancestors; the items in ascending or descending order.
\* ======================================================================
\* "if depth > 1000" / "if current_depth > 1000"
DepthLimit == 1000
\* the directory the walk is started on
parent_id == 1

\* parent of every directory but the first: a tree rooted at parent_id
Parents(n) == {p \in [2..n -> 1..n] : \A d \in 2..n : p[d] < d}

RECURSIVE Ascending(_)
Ascending(S) ==
  IF S = {} THEN <<>>
  ELSE LET m == CHOOSE x \in S : \A y \in S : x <= y
       IN  <<m>> \o Ascending(S \ {m})

Reversed(s) == [i \in 1..Len(s) |-> s[Len(s) + 1 - i]]

\* the listing of every directory of a tree, with an optional extra link
Listings(n, p, desc, link) ==
  [d \in 1..n |->
     LET own == Ascending({c \in 2..n : p[c] = d})
         ordered == IF desc THEN Reversed(own) ELSE own
     IN  IF link # None /\ link[1][1] = d THEN ordered \o <<link[1][2]>> ELSE ordered]

\* d and its ancestors in the tree of parent function p
RECURSIVE UpFrom(_, _)
UpFrom(p, d) == IF d = 1 THEN {1} ELSE {d} \cup UpFrom(p, p[d])

\* no extra item, or a link from a to a itself or to an ancestor of a
Links(n, p) ==
  {None} \cup {Some(ab) : ab \in {x \in (1..n) \X (1..n) : x[2] \in UpFrom(p, x[1])}}

Structures ==
  UNION {UNION {{Listings(n, p, desc, link) : desc \in BOOLEAN, link \in Links(n, p)}
                : p \in Parents(n)}
         : n \in 1..MaxDirs}

Dirs == DOMAIN w_kids

\* a directory reaches itself again
RECURSIVE Below(_, _, _)
Below(kids, frontier, n) ==
  IF n = 0 THEN frontier
  ELSE Below(kids, UNION {{kids[d][i] : i \in 1..Len(kids[d])} : d \in frontier}, n - 1)
Cyclic(kids) == Below(kids, {parent_id}, Len(kids)) # {}
IsTree(kids) == ~Cyclic(kids)

Troubles(kids) ==
  {None} \cup {Some(<<kind, d>>) : kind \in {"code", "exc", "nosave"}, d \in DOMAIN kids}

\* what happens to the processing of directory d in this run
Outcome(d) ==
  IF w_trouble # None /\ w_trouble[1][2] = d THEN w_trouble[1][1] ELSE "ok"

\* the directories whose listing does not go through in this run
Blocked == {d \in Dirs : Outcome(d) \in {"code", "exc"}}

\* the structure as far as the listings that go through show it
Shown == [d \in Dirs |-> IF d \in Blocked THEN <<>> ELSE w_kids[d]]

\* the depths a walk is started at: around the ceiling, and 0 when the
\* listings that go through show no cycle
StartDepths ==
  ((DepthLimit - 1)..(DepthLimit + 1)) \cup (IF Cyclic(Shown) THEN {} ELSE {0})

EmptyWalk ==
  /\ stack = <<>>
  /\ w_queued = EmptyBag
  /\ w_running = EmptyBag
  /\ w_finished = EmptyBag
  /\ w_listed = EmptyBag
  /\ w_saved = EmptyBag
  /\ w_aborted = FALSE
  /\ w_overlap = FALSE
  /\ w_late = EmptyBag

WalkStart ==
  /\ w_kids \in Structures
  /\ w_trouble \in Troubles(w_kids)
  /\ depth \in StartDepths
  /\ \/ w_fn = "v1" /\ max_workers = 1
     \/ w_fn = "v2" /\ max_workers \in 1..MaxWorkers
  /\ w_pc = "enter"
  /\ EmptyWalk

\* no walk in progress
WalkIdle ==
  /\ w_fn = "v2"
  /\ w_kids = <<>>
  /\ w_trouble = None
  /\ depth = 0
  /\ max_workers = 1
  /\ w_pc = "idle"
  /\ EmptyWalk

\* ------------------------------------------------ one directory processed
\* the depth guard
ExceedsCeilingLate(k) == k > DepthLimit + 1
ExceedsCeiling(k) == k > DepthLimit

\* "except Exception" around the processing of one directory
ProcessLetsThrough == FALSE
ProcessCatches == TRUE

\* "except Exception" around the whole walk
OuterCatches == TRUE

\* the tasks for the sub-directories the listing of d names
Children(d, k) == [i \in 1..Len(w_kids[d]) |-> <<w_kids[d][i], k + 1>>]

\* process_directory(d, path, k), and the body of recursive_list_v1: was the
\* listing requested, was the JSON file written, the child tasks returned,
\* and whether an exception leaves the call
ProcessResult(d, k) ==
  IF ExceedsCeiling(k)
  THEN [listed |-> FALSE, saved |-> FALSE, children |-> <<>>, raised |-> FALSE]
  ELSE CASE Outcome(d) = "code" ->
              [listed |-> TRUE, saved |-> FALSE, children |-> <<>>, raised |-> FALSE]
         [] Outcome(d) = "exc" ->
              [listed |-> TRUE, saved |-> FALSE, children |-> <<>>,
               raised |-> ~ProcessCatches]
         [] Outcome(d) = "nosave" ->
              [listed |-> TRUE, saved |-> FALSE, children |-> Children(d, k),
               raised |-> FALSE]
         [] OTHER ->
              [listed |-> TRUE, saved |-> TRUE, children |-> Children(d, k),
               raised |-> FALSE]

\* the listing went through: the call goes on to the sub-directories
Descends(d, k) == ~ExceedsCeiling(k) /\ Outcome(d) \in {"ok", "nosave"}

One(t) == SetToBag({t})

\* the history after the processing of task t
Recorded(t) ==
  LET res == ProcessResult(t[1], t[2])
  IN  /\ w_listed' = IF res.listed THEN w_listed (+) One(t) ELSE w_listed
      /\ w_saved' = IF res.saved THEN w_saved (+) One(t) ELSE w_saved

RECURSIVE SeqToBag(_)
SeqToBag(s) == IF s = <<>> THEN EmptyBag ELSE One(Head(s)) (+) SeqToBag(Tail(s))

\* worker_count = max(1, max_workers)
WorkerCount == IF max_workers > 1 THEN max_workers ELSE 1

\* ------------------------------------------------------------ the walk
\* the call: the depth guard and the start of the traversal
\* (v1: the body of the first call; v2: the first stack entry or future)
WalkEnter ==
  /\ w_pc = "enter"
  /\ LET first == <<parent_id, depth>>
     IN  IF ExceedsCeiling(depth)
         THEN /\ w_pc' = "done"
              /\ UNCHANGED <<stack, w_queued, w_running, w_listed, w_saved, w_aborted>>
         ELSE IF w_fn = "v1"
         THEN /\ Recorded(first)
              /\ stack' = IF Descends(parent_id, depth)
                          THEN <<Children(parent_id, depth)>> ELSE <<>>
              /\ w_pc' = IF Descends(parent_id, depth) THEN "v1" ELSE "done"
              /\ UNCHANGED <<w_queued, w_running, w_aborted>>
         ELSE IF WorkerCount = 1
         THEN /\ stack' = <<first>>
              /\ w_pc' = "seq"
              /\ UNCHANGED <<w_queued, w_running, w_listed, w_saved, w_aborted>>
         ELSE /\ w_running' = One(first)
              /\ w_pc' = "pool"
              /\ UNCHANGED <<stack, w_queued, w_listed, w_saved, w_aborted>>
  /\ UNCHANGED <<w_fn, w_kids, w_trouble, depth, max_workers, w_finished, w_overlap>>
  /\ UNCHANGED notWalk

\* recursive_list_v1, "for item in dir_items": the recursive call for the
\* next sub-directory; a frame of stack is the items its loop has left
V1Recurse ==
  /\ w_pc = "v1"
  /\ stack[Len(stack)] # <<>>
  /\ LET frame == stack[Len(stack)]
         t == Head(frame)
         below == [stack EXCEPT ![Len(stack)] = Tail(frame)]
     IN  /\ Recorded(t)
         /\ stack' = IF Descends(t[1], t[2])
                     THEN Append(below, Children(t[1], t[2])) ELSE below
  /\ UNCHANGED <<w_fn, w_kids, w_trouble, depth, max_workers, w_pc, w_queued,
                 w_running, w_finished, w_aborted, w_overlap>>
  /\ UNCHANGED notWalk

\* recursive_list_v1: the loop of a call is over, the call returns
V1Return ==
  /\ w_pc = "v1"
  /\ stack[Len(stack)] = <<>>
  /\ stack' = SubSeq(stack, 1, Len(stack) - 1)
  /\ w_pc' = IF Len(stack) = 1 THEN "done" ELSE "v1"
  /\ UNCHANGED <<w_fn, w_kids, w_trouble, depth, max_workers, w_queued, w_running,
                 w_finished, w_listed, w_saved, w_aborted, w_overlap>>
  /\ UNCHANGED notWalk

\* recursive_list_v2, worker_count == 1: one iteration of "while stack"
SeqStep ==
  /\ w_pc = "seq"
  /\ LET t == stack[Len(stack)]
         rest == SubSeq(stack, 1, Len(stack) - 1)
         res == ProcessResult(t[1], t[2])
     IN  /\ Recorded(t)
         /\ IF res.raised
            THEN /\ stack' = rest
                 /\ w_aborted' = TRUE
                 /\ w_pc' = IF OuterCatches THEN "done" ELSE "raised"
            ELSE /\ stack' = rest \o res.children
                 /\ w_pc' = IF stack' = <<>> THEN "done" ELSE "seq"
                 /\ UNCHANGED w_aborted
  /\ UNCHANGED <<w_fn, w_kids, w_trouble, depth, max_workers, w_queued, w_running,
                 w_finished, w_overlap>>
  /\ UNCHANGED notWalk

\* the executor starts submitted tasks while a worker thread is free: the
\* ways the tasks of q can join the running tasks r
RECURSIVE Started(_, _)
Started(q, r) ==
  IF q = EmptyBag \/ BagCardinality(r) >= WorkerCount THEN {<<q, r>>}
  ELSE UNION {Started(q (-) One(t), r (+) One(t)) : t \in BagToSet(q)}

\* a worker thread runs process_directory to its end: the future is done,
\* and the thread takes a waiting task if there is one
WorkerFinish ==
  /\ w_pc = "pool"
  /\ \E t \in BagToSet(w_running) :
       /\ Recorded(t)
       /\ w_finished' = w_finished (+) One(t)
       /\ \E qr \in Started(w_queued, w_running (-) One(t)) :
            /\ w_queued' = qr[1]
            /\ w_running' = qr[2]
  /\ w_overlap' = (w_overlap \/ BagCardinality(w_running) > 1)
  /\ UNCHANGED <<w_fn, w_kids, w_trouble, depth, max_workers, w_pc, stack, w_aborted>>
  /\ UNCHANGED notWalk

\* "for child in child_tasks: executor.submit(...)": the tasks
\* submitted for the children a future returned
SubmittedHead(children) == IF children = <<>> THEN EmptyBag ELSE One(Head(children))
Submitted(children) == SeqToBag(children)

\* the child tasks of the futures of a bag (a future that holds an exception
\* gives none: "except Exception ... continue")
RECURSIVE ChildTasks(_)
ChildTasks(b) ==
  IF b = EmptyBag THEN EmptyBag
  ELSE LET t == CHOOSE x \in BagToSet(b) : TRUE
       IN  Submitted(ProcessResult(t[1], t[2]).children) (+) ChildTasks(b (-) One(t))

\* "while future_map": the map holds the futures that wait for a thread,
\* that run, and that are done and not yet popped
FutureMapEmptyEarly(queued, running, finished) == finished = EmptyBag
FutureMapEmpty(queued, running, finished) ==
  queued = EmptyBag /\ running = EmptyBag /\ finished = EmptyBag

\* the main thread: wait(FIRST_COMPLETED) returns the futures that are done;
\* each is popped from future_map and its child tasks are submitted; the loop
\* and the walk end when future_map is empty
PoolCollect ==
  /\ w_pc = "pool"
  /\ w_finished # EmptyBag
  /\ w_finished' = EmptyBag
  /\ \E qr \in Started(w_queued (+) ChildTasks(w_finished), w_running) :
       /\ w_queued' = qr[1]
       /\ w_running' = qr[2]
  /\ w_pc' = IF FutureMapEmpty(w_queued', w_running', w_finished') THEN "done" ELSE "pool"
  /\ UNCHANGED <<w_fn, w_kids, w_trouble, depth, max_workers, stack,
                 w_listed, w_saved, w_aborted, w_overlap>>
  /\ UNCHANGED notWalk

\* ---------------------------------------------------------------- claims
\* the <<directory, depth>> pairs one step below those of P, within the ceiling
StepBelow(P) ==
  UNION {{<<w_kids[t[1]][i], t[2] + 1>> : i \in 1..Len(w_kids[t[1]])}
         : t \in {u \in P : u[1] \notin Blocked /\ u[2] + 1 <= DepthLimit}}

RECURSIVE Closure(_)
Closure(P) == LET Q == P \cup StepBelow(P) IN IF Q = P THEN P ELSE Closure(Q)

\* what a complete walk lists: every directory within the ceiling that is
\* reached from the start without passing through a failed listing
Reach == IF depth > DepthLimit THEN {} ELSE Closure({<<parent_id, depth>>})

\* the directories reached from the start without passing through a failed one
RECURSIVE Avoiding(_)
Avoiding(S) ==
  LET T == S \cup UNION {{w_kids[d][i] : i \in 1..Len(w_kids[d])} : d \in S \ Blocked}
  IN  IF T = S THEN S ELSE Avoiding(T)

WalkDone == w_pc = "done"
Listed == BagToSet(w_listed)

\* C7: recursive_list_v1 and recursive_list_v2 list no directory at a depth
\* above 1000; on a structure that is cyclic or deeper than the ceiling the
\* walk ends without raising, and by then it has listed every directory
\* within the ceiling, those of the other branches included.
NoDeepListing == \A t \in Listed : t[2] <= DepthLimit
WalkComplete == WalkDone /\ ~w_aborted /\ Reach \subseteq Listed
C8_FailureIsolation ==
  (w_fn = "v2" /\ Blocked # {}) =>
     /\ \A t \in Listed : t[1] \in Avoiding({parent_id})
     /\ ~w_aborted /\ w_pc # "raised"
     /\ WalkDone => Listed = Reach

\* D failed below the start and under the ceiling: what the listing of D
\* names was left out and a sibling branch was listed, by the thread pool
C8_Witness ==
  /\ w_fn = "v2" /\ max_workers > 1
  /\ WalkDone
  /\ \E D \in Blocked :
       /\ D # parent_id
       /\ w_kids[D] # <<>>
       /\ \E t \in Listed :
            /\ t[1] = D /\ t[2] < DepthLimit
            /\ \A i \in 1..Len(w_kids[D]) : <<w_kids[D][i], t[2] + 1>> \notin Listed
       /\ \E t \in Listed : t[1] \notin {parent_id, D}

\* recursive_list_v2 with worker_count = 1, as a function: the bags of
\* listings and of saved files after "while stack" has emptied the stack
RECURSIVE SeqWalk(_, _)
SeqWalk(stk, acc) ==
  IF stk = <<>> THEN acc
  ELSE LET t == stk[Len(stk)]
           res == ProcessResult(t[1], t[2])
       IN  SeqWalk(SubSeq(stk, 1, Len(stk) - 1) \o res.children,
                   [listed |-> IF res.listed THEN acc.listed (+) One(t) ELSE acc.listed,
                    saved |-> IF res.saved THEN acc.saved (+) One(t) ELSE acc.saved])

SeqOutcome ==
  IF depth > DepthLimit THEN [listed |-> EmptyBag, saved |-> EmptyBag]
  ELSE SeqWalk(<<<<parent_id, depth>>>>, [listed |-> EmptyBag, saved |-> EmptyBag])

\* the height of the structure below the start fits under the ceiling
WithinCeiling == depth + Cardinality(Dirs) <= DepthLimit

\* C10: whatever the interleaving of the worker threads, recursive_list_v2
\* with max_workers > 1 processes the directories the sequential walk
\* processes, and on a tree each directory is listed and saved exactly once.
C10_PoolMatchesSequential ==
  (w_fn = "v2" /\ max_workers > 1 /\ WalkDone) =>
     /\ w_listed = SeqOutcome.listed
     /\ w_saved = SeqOutcome.saved
     /\ (IsTree(w_kids) /\ w_trouble = None /\ WithinCeiling) =>
           \A d \in Dirs :
              /\ Cardinality({t \in Listed : t[1] = d}) = 1
              /\ \A t \in Listed : CopiesIn(t, w_listed) = 1 /\ CopiesIn(t, w_saved) = 1

\* a walk of a whole tree during which two worker threads ran together
C10_Witness ==
  /\ w_fn = "v2" /\ max_workers > 1
  /\ WalkDone
  /\ w_overlap
  /\ IsTree(w_kids) /\ w_trouble = None /\ WithinCeiling
  /\ Cardinality(Dirs) = MaxDirs
  /\ BagCardinality(w_saved) = MaxDirs

\* C30: the concurrent mode of recursive_list_v2 eventually returns, and it
\* returns only when no directory task waits, runs or is done and not yet
\* collected: the child tasks of every completed directory are submitted
\* before the loop can see an empty future_map, so by the return every
\* discovered directory has been processed.
PoolMode == w_fn = "v2" /\ max_workers > 1
NoTaskLeft == w_queued = EmptyBag /\ w_running = EmptyBag /\ w_finished = EmptyBag
C30_PoolReturnsWhenDrained ==
  /\ []((PoolMode /\ WalkDone) => (NoTaskLeft /\ Reach \subseteq Listed))
  /\ (PoolMode => <>WalkDone)

\* a walk by the pool over a tree of MaxDirs directories that went two
\* levels down: tasks were submitted by the loop after it had started
C30_Witness ==
  /\ PoolMode /\ WalkDone
  /\ IsTree(w_kids) /\ w_trouble = None
  /\ BagCardinality(w_listed) = MaxDirs
  /\ \E t \in Listed : t[2] = depth + 2
  /\ NoTaskLeft

\* C31: with max_workers <= 1 recursive_list_v2 processes the directories in
\* depth-first pre-order with the children in backend listing order, as
\* recursive_list_v1 does: on a tree, the directory processed next is never
\* one that the backend listed after a sibling that still waits.
ListedBefore(x, y) ==
  \E d \in DOMAIN w_kids : \E a, b \in 1..Len(w_kids[d]) :
     a < b /\ w_kids[d][a] = x /\ w_kids[d][b] = y
C31_SequentialPreOrder ==
  (w_fn = "v2" /\ w_pc = "seq" /\ IsTree(w_kids) /\ stack # <<>>) =>
     \A j \in 1..(Len(stack) - 1) :
        ~ListedBefore(stack[j][1], stack[Len(stack)][1])

\* ======================================================================
\* KeyboardInterrupt during a walk
\*
\* The interpreter raises KeyboardInterrupt in the main thread. No handler
\* of the walk absorbs it: "except Exception" does not match it and every
\* "except KeyboardInterrupt" re-raises. In the sequential walks it leaves
\* the call at once. In the thread pool walk it first leaves the "with
\* ThreadPoolExecutor" block, whose exit is shutdown(wait=True): the tasks
\* already submitted are still run by the worker threads, and only then does
\* the interrupt reach the caller.
\* ======================================================================
\* the interrupt is raised while the walk is in progress
WalkInterrupt ==
  /\ w_pc \in {"v1", "seq", "pool"}
  /\ IF w_pc = "pool"
     THEN \* main thread, in wait() or in "for fut in done": of the tasks
          \* handed to a worker thread, some have not called
          \* get_file_list_v2 yet
          /\ \E begun \in SubBag(w_running) :
                w_late' = w_running (-) begun
          /\ w_pc' = IF w_running = EmptyBag THEN "interrupted" ELSE "shutdown"
          /\ w_finished' = EmptyBag
          /\ UNCHANGED <<stack, w_listed>>
     ELSE \* raised in the listing of the next directory
          /\ w_pc = "v1" => stack[Len(stack)] # <<>>
          /\ LET t == IF w_pc = "v1" THEN Head(stack[Len(stack)])
                       ELSE stack[Len(stack)]
             IN  w_listed' = IF ExceedsCeiling(t[2]) THEN w_listed
                             ELSE w_listed (+) One(t)
          /\ stack' = <<>>
          /\ w_pc' = "interrupted"
          /\ UNCHANGED <<w_late, w_finished>>
  /\ UNCHANGED <<w_fn, w_kids, w_trouble, depth, max_workers, w_queued, w_running,
                 w_saved, w_aborted, w_overlap>>
  /\ UNCHANGED notWalkInt

\* executor.shutdown(wait=True): a worker thread ends its task and takes a
\* task that was submitted before the interrupt; nothing is submitted any
\* more. When no task is left the interrupt reaches the caller.
ShutdownFinish ==
  /\ w_pc = "shutdown"
  /\ \E t \in BagToSet(w_running) :
       /\ Recorded(t)
       /\ \E qr \in Started(w_queued, w_running (-) One(t)) :
            /\ w_queued' = qr[1]
            /\ w_running' = qr[2]
            /\ w_late' = w_late (+) (w_queued (-) qr[1])
  /\ w_pc' = IF w_running' = EmptyBag THEN "interrupted" ELSE "shutdown"
  /\ UNCHANGED <<w_fn, w_kids, w_trouble, depth, max_workers, stack, w_finished,
                 w_aborted, w_overlap>>
  /\ UNCHANGED notWalkInt

\* C13: a KeyboardInterrupt raised during recursive_list_v1 or
\* recursive_list_v2, sequential or concurrent, is not absorbed by the
\* per-item handlers: it propagates to the caller, and no directory listing
\* is started after it was raised.
C13_InterruptPropagates ==
  w_pc \in {"shutdown", "interrupted"} => w_late = EmptyBag

\* ======================================================================
\* Downloader.download_folder and its subtree walk Downloader._get_file_list
\*
\* The folder is a tree of directories; a directory lists its files and its
\* sub-directories on one page (lastFileId = -1), files first or last.
\* ======================================================================
\* the id _find_file_by_path has resolved the folder to
folder_id == 1

\* A string that holds a path is a sequence of tokens: the separator "/" and
\* the names of entries. An entry name holds no "/"; "." is a name.
Slash == "/"
DirNames == {"a", "."}

\* str(cloud_path) of download_folder: absolute, normalised, not the root
cloud_path == <<Slash, "r">>

DirItem(d, name) == [fileId |-> d, type |-> 1, trashed |-> 0, filename |-> name]
FileItem(d, j) == [fileId |-> 10 * d + j, type |-> 0, trashed |-> 0, filename |-> "f"]

\* the listing of every directory: nfiles[d] files and the sub-directories
Folder(n, p, nfiles, filesFirst, nm) ==
  [d \in 1..n |->
     LET subdirs == Ascending({c \in 2..n : p[c] = d})
         dirItems == [i \in 1..Len(subdirs) |-> DirItem(subdirs[i], nm[subdirs[i]])]
         fileItems == [j \in 1..nfiles[d] |-> FileItem(d, j)]
     IN  IF filesFirst THEN fileItems \o dirItems ELSE dirItems \o fileItems]

Folders ==
  UNION {{Folder(n, p, nfiles, ff, nm) :
            p \in Parents(n), nfiles \in [1..n -> 0..MaxDlFiles], ff \in BOOLEAN,
            nm \in [2..n -> DirNames]}
         : n \in 1..MaxDlDirs}

\* item_path = f"{current_path}/{item['filename']}", or "/" + filename when
\* current_path is empty
ItemPath(current_path, filename) ==
  IF current_path # <<>> THEN current_path \o <<Slash, filename>>
  ELSE <<Slash, filename>>

\* PurePosixPath(s): whether s is anchored at the root, and its parts. The
\* parts are the segments between separators; empty segments and "." are
\* dropped, ".." is kept.
IsPart(tok) == tok # Slash /\ tok # "."
PurePosixPath(s) ==
  [root |-> (s # <<>> /\ Head(s) = Slash), parts |-> SelectSeq(s, IsPart)]

\* path.relative_to(base): the parts of path after those of base, or None
\* for the ValueError raised when base is not a prefix of path
RelativeTo(path, base) ==
  IF /\ path.root = base.root
     /\ Len(base.parts) <= Len(path.parts)
     /\ SubSeq(path.parts, 1, Len(base.parts)) = base.parts
  THEN Some(SubSeq(path.parts, Len(base.parts) + 1, Len(path.parts)))
  ELSE None

\* str() of a relative path: its parts joined by "/", "." when it has none
RECURSIVE JoinParts(_)
JoinParts(ps) ==
  IF ps = <<>> THEN <<>>
  ELSE IF Len(ps) = 1 THEN ps
  ELSE <<Head(ps), Slash>> \o JoinParts(Tail(ps))
PathStr(ps) == IF ps = <<>> THEN <<".">> ELSE JoinParts(ps)

\* relative_path of an item
RelativePath(item_path, base_path, filename) ==
  IF base_path # <<>>
  THEN LET rel == RelativeTo(PurePosixPath(item_path), PurePosixPath(base_path))
       IN  IF rel = None THEN <<filename>> ELSE PathStr(rel[1])
  ELSE <<filename>>

DlTroubles(tree) ==
  {None} \cup {Some(<<kind, d>>) : kind \in {"nodata", "raise"}, d \in DOMAIN tree}

DlStart ==
  /\ dl_tree \in Folders
  /\ dl_trouble \in DlTroubles(dl_tree)
  /\ dl_pc = "enter"
  /\ dl_stack = <<>>
  /\ dl_file_list = <<>>
  /\ files_to_download = <<>>

\* no download_folder in progress
DlIdle ==
  /\ dl_tree = <<>>
  /\ dl_trouble = None
  /\ dl_pc = "idle"
  /\ dl_stack = <<>>
  /\ dl_file_list = <<>>
  /\ files_to_download = <<>>

\* how the list_v2 request for directory d ends
DlOutcome(d) ==
  IF dl_trouble # None /\ dl_trouble[1][2] = d THEN dl_trouble[1][1] ELSE "ok"

\* the call _get_file_list(d, ...) up to its for loop: the frame it starts
\* with. A response without "data" or with an empty fileList ends the while
\* loop at once; a page with lastFileId = -1 is the only one read.
FirstFrame(d, current_path) ==
  LET resjson == ListV2([code |-> 0, data |-> [fileList |-> dl_tree[d], lastFileId |-> EndCursor]])
  IN  [items |-> IF DlOutcome(d) = "nodata" THEN <<>> ELSE resjson.data.fileList,
       acc |-> <<>>,
       current_path |-> current_path]

\* download_folder from the resolved folder to the call of _get_file_list
DlEnter ==
  /\ dl_pc = "enter"
  /\ IF DlOutcome(folder_id) = "raise"
     THEN dl_pc' = "raised" /\ UNCHANGED dl_stack
     ELSE dl_pc' = "walk" /\ dl_stack' = <<FirstFrame(folder_id, cloud_path)>>
  /\ UNCHANGED <<dl_tree, dl_trouble, dl_file_list, files_to_download>>
  /\ UNCHANGED notDl

\* _get_file_list, one item of "for item in resjson[...]": a directory is
\* recursed into, anything else is appended. No handler stands between a
\* raising request and the caller of download_folder.
DlItem ==
  /\ dl_pc = "walk"
  /\ dl_stack[Len(dl_stack)].items # <<>>
  /\ LET top == dl_stack[Len(dl_stack)]
         raw == Head(top.items)
         item_path == ItemPath(top.current_path, raw.filename)
         item == [fileId |-> raw.fileId, type |-> raw.type, trashed |-> raw.trashed,
                  filename |-> raw.filename,
                  full_path |-> item_path,
                  relative_path |-> RelativePath(item_path, cloud_path, raw.filename)]
         rest == [dl_stack EXCEPT ![Len(dl_stack)].items = Tail(top.items)]
     IN  IF item.type = 1
         THEN IF DlOutcome(item.fileId) = "raise"
              THEN dl_pc' = "raised" /\ dl_stack' = <<>>
              ELSE dl_pc' = "walk" /\ dl_stack' = Append(rest, FirstFrame(item.fileId, item_path))
         ELSE /\ dl_pc' = "walk"
              /\ dl_stack' = [rest EXCEPT ![Len(rest)].acc = Append(top.acc, item)]
  /\ UNCHANGED <<dl_tree, dl_trouble, dl_file_list, files_to_download>>
  /\ UNCHANGED notDl

\* _get_file_list returns its file_list: the caller extends its own with it,
\* or download_folder receives it
DlReturn ==
  /\ dl_pc = "walk"
  /\ dl_stack[Len(dl_stack)].items = <<>>
  /\ LET top == dl_stack[Len(dl_stack)]
         below == SubSeq(dl_stack, 1, Len(dl_stack) - 1)
     IN  IF below = <<>>
         THEN /\ dl_pc' = "listed"
              /\ dl_file_list' = top.acc
              /\ dl_stack' = <<>>
         ELSE /\ dl_stack' = [below EXCEPT ![Len(below)].acc = @ \o top.acc]
              /\ UNCHANGED <<dl_pc, dl_file_list>>
  /\ UNCHANGED <<dl_tree, dl_trouble, files_to_download>>
  /\ UNCHANGED notDl

IsLiveFile(f) == f.type = 0 /\ f.trashed = 0

\* download_folder: the files kept for the download loop
DlFilter ==
  /\ dl_pc = "listed"
  /\ files_to_download' = SelectSeq(dl_file_list, IsLiveFile)
  /\ dl_pc' = "done"
  /\ UNCHANGED <<dl_tree, dl_trouble, dl_stack, dl_file_list>>
  /\ UNCHANGED notDl

\* ---------------------------------------------------------------- claims
\* the directories of the folder reached without passing through the one
\* whose listing request fails
RECURSIVE DlAvoiding(_)
DlAvoiding(S) ==
  LET sub(d) == {dl_tree[d][i].fileId : i \in {k \in 1..Len(dl_tree[d]) : dl_tree[d][k].type = 1}}
      T == S \cup UNION {sub(d) : d \in {e \in S : DlOutcome(e) = "ok"}}
  IN  IF T = S THEN S ELSE DlAvoiding(T)

\* the files of the branches that the failure does not concern
SiblingFiles ==
  UNION {{dl_tree[d][i].fileId : i \in {k \in 1..Len(dl_tree[d]) : dl_tree[d][k].type = 0}}
         : d \in {e \in DlAvoiding({folder_id}) : DlOutcome(e) = "ok"}}

\* C9: a listing request that fails for one sub-directory abandons only that
\* branch: download_folder does not raise, and the files of the sibling
\* branches are enumerated for the download loop.
C9_BranchFailureIsolated ==
  (dl_trouble # None /\ dl_trouble[1][2] # folder_id) =>
     /\ dl_pc # "raised"
     /\ dl_pc = "done" =>
          SiblingFiles = {files_to_download[i].fileId : i \in 1..Len(files_to_download)}

\* the entries of the subtree below the folder: those of every listing
SubtreeEntries ==
  UNION {{dl_tree[d][i] : i \in 1..Len(dl_tree[d])} : d \in DOMAIN dl_tree}

\* the ids of the entries _get_file_list returned
ReturnedIds == {dl_file_list[i].fileId : i \in 1..Len(dl_file_list)}

\* C11: the sequence returned by the subtree walk holds every non-trashed
\* file of the subtree and also every directory entry of the subtree: a
\* directory is emitted as an entry itself as well as recursed into.
C11_DirectoriesEmitted ==
  (dl_pc \in {"listed", "done"} /\ dl_trouble = None) =>
     \A e \in SubtreeEntries : e.trashed = 0 => e.fileId \in ReturnedIds

\* the directory whose listing holds the entry with this id, and the full
\* path of a directory of the folder as the names of the remote tree give it
ParentOf(id) ==
  CHOOSE d \in DOMAIN dl_tree : \E i \in 1..Len(dl_tree[d]) : dl_tree[d][i].fileId = id
NameOf(id) ==
  LET d == ParentOf(id)
  IN  dl_tree[d][CHOOSE i \in 1..Len(dl_tree[d]) : dl_tree[d][i].fileId = id].filename
RECURSIVE RemotePath(_)
RemotePath(d) ==
  IF d = folder_id THEN cloud_path
  ELSE RemotePath(ParentOf(d)) \o <<Slash, NameOf(d)>>

\* C12: every entry returned by _get_file_list(rootId, rootPath, rootPath)
\* has full_path = (full path of its parent directory) + "/" + filename and
\* full_path = rootPath + "/" + relative_path, at every nesting depth.
C12_PathsConsistent ==
  \A i \in 1..Len(dl_file_list) :
     LET e == dl_file_list[i]
     IN  /\ e.full_path = RemotePath(ParentOf(e.fileId)) \o <<Slash, e.filename>>
         /\ e.full_path = cloud_path \o <<Slash>> \o e.relative_path

\* the two equalities for the entries reached through directories none of
\* which is named "."
PlainlyNamed(id) ==
  \A k \in 1..Len(RemotePath(ParentOf(id))) : RemotePath(ParentOf(id))[k] # "."
PathsConsistentPlain ==
  \A i \in 1..Len(dl_file_list) :
     LET e == dl_file_list[i]
     IN  PlainlyNamed(e.fileId) =>
            /\ e.full_path = RemotePath(ParentOf(e.fileId)) \o <<Slash, e.filename>>
            /\ e.full_path = cloud_path \o <<Slash>> \o e.relative_path

\* ======================================================================
\* Uploader.upload_file_chunked: create, slices, completion polling
\*
\* One call for one file. The backend chooses the response of create, the
\* outcome of every slice request and the response of every upload_complete
\* request; a request takes 0..MaxDelay seconds.
\* ======================================================================
\* upload_complete: "the file is still being verified"
VerifyingCode == 20103
\* time.sleep(2) of the polling loop
PollInterval == 2
\* the slice size used when neither the argument nor the response gives
\* one: 16 * 1024 * 1024
DefaultSlice == 16777216

\* the content of the file: byte i has value i
FileBytes == [i \in 1..size |-> i]

\* hashlib.md5 of a byte string: distinct strings have distinct digests
Md5Bytes(b) == <<"md5", b>>

\* the data a create response can carry
CreateData ==
  [reuse : BOOLEAN, fileID : {0, 7}, preuploadID : {"", "p1"},
   sliceSize : {0, 2}, servers : {<<>>, <<"s1", "s2">>}]

CreateResponses ==
  {[code |-> 1, data |-> None], [code |-> 0, data |-> None]}
    \cup {[code |-> 0, data |-> Some(d)] : d \in CreateData}

\* the responses of upload_complete: [code, data], data None or Some(record)
CompleteData == [completed : BOOLEAN, fileID : {0, 7}]
CompleteResponses ==
  {[code |-> c, data |-> d] :
     c \in {0, VerifyingCode, 1},
     d \in {None} \cup {Some(x) : x \in CompleteData}}

\* how a slice request ends: a response with code 0, a response with a
\* non-zero code, or an exception
SliceOutcomes == {"ok", "code", "raise"}

UpStart ==
  /\ size \in 1..MaxSize
  /\ slice_size \in {None} \cup {Some(n) : n \in 1..MaxSlice}
  /\ server \in {None, Some("s0")}
  /\ poll_timeout_sec \in 0..MaxTimeout
  /\ u_resp \in CreateResponses
  /\ u_pc = "create"
  /\ preuploadID = "" /\ real_slice = 0 /\ upload_server = None
  /\ total_parts = 0 /\ part_no = 1 /\ u_pos = 0 /\ u_elapsed = 0
  /\ u_ret = None /\ u_slices = <<>> /\ u_part_failed = FALSE
  /\ u_completes = 0 /\ u_done = None

\* no upload in progress
UpIdle ==
  /\ size = 0 /\ slice_size = None /\ server = None /\ poll_timeout_sec = 0
  /\ u_resp = [code |-> 0, data |-> None]
  /\ u_pc = "idle"
  /\ preuploadID = "" /\ real_slice = 0 /\ upload_server = None
  /\ total_parts = 0 /\ part_no = 1 /\ u_pos = 0 /\ u_elapsed = 0
  /\ u_ret = None /\ u_slices = <<>> /\ u_part_failed = FALSE
  /\ u_completes = 0 /\ u_done = None

\* data.get("reuse") is True and data.get("fileID", 0) != 0
IsReuseNever(data) == FALSE
IsReuse(data) == data.reuse /\ data.fileID # 0

\* int(slice_size or data.get("sliceSize") or 16 * 1024 * 1024)
RealSlice(arg, data) ==
  IF arg # None THEN arg[1]
  ELSE IF data.sliceSize # 0 THEN data.sliceSize
  ELSE DefaultSlice

\* server or (data.get("servers") or [None])[0]
UploadServer(arg, data) ==
  IF arg # None THEN arg
  ELSE IF data.servers # <<>> THEN Some(Head(data.servers))
  ELSE None

\* math.ceil(size / real_slice) if real_slice else 0
TotalPartsFloor(n, slice) == IF slice = 0 THEN 0 ELSE n \div slice
TotalParts(n, slice) == IF slice = 0 THEN 0 ELSE (n + slice - 1) \div slice

\* steps 1 and 2 up to the slice loop: the create request and its checks
UpCreate ==
  /\ u_pc = "create"
  /\ IF u_resp.code # 0 \/ u_resp.data = None
     THEN /\ u_pc' = "RuntimeError"
          /\ UNCHANGED <<preuploadID, real_slice, upload_server, total_parts, u_ret>>
     ELSE LET data == u_resp.data[1]
          IN  IF IsReuse(data)
              THEN /\ u_pc' = "returned"
                   /\ u_ret' = Some(data)
                   /\ UNCHANGED <<preuploadID, real_slice, upload_server, total_parts>>
              ELSE IF data.preuploadID = ""
              THEN /\ u_pc' = "RuntimeError"
                   /\ UNCHANGED <<preuploadID, real_slice, upload_server,
                                  total_parts, u_ret>>
              ELSE /\ preuploadID' = data.preuploadID
                   /\ real_slice' = RealSlice(slice_size, data)
                   /\ upload_server' = UploadServer(server, data)
                   /\ IF upload_server' = None
                      THEN u_pc' = "RuntimeError" /\ UNCHANGED total_parts
                      ELSE /\ total_parts' = TotalParts(size, real_slice')
                           /\ u_pc' = "slices"
                   /\ UNCHANGED u_ret
  /\ UNCHANGED <<size, slice_size, server, poll_timeout_sec, u_resp, part_no, u_pos,
                 u_elapsed, u_slices, u_part_failed, u_completes, u_done>>
  /\ UNCHANGED notUp

\* f.read(real_slice) at position pos: the bytes read
ReadChunk(pos, n) ==
  SubSeq(FileBytes, pos + 1, IF pos + n <= size THEN pos + n ELSE size)

\* range(1, total_parts + 1) is exhausted at k
LoopOverEarly(k) == k > 1
LoopOver(k) == k > total_parts

\* one iteration of "for part_no in range(1, total_parts + 1)": the chunk is
\* read and sent; the response of file2.slice is not looked at, an exception
\* leaves upload_file_chunked
UpSlice ==
  /\ u_pc = "slices"
  /\ ~LoopOver(part_no)
  /\ LET chunk == ReadChunk(u_pos, real_slice)
     IN  IF chunk = <<>>
         THEN /\ u_pc' = "poll"
              /\ UNCHANGED <<part_no, u_pos, u_slices, u_part_failed>>
         ELSE /\ u_slices' = Append(u_slices,
                     [preuploadID |-> preuploadID, sliceNo |-> part_no,
                      sliceMD5 |-> Md5Bytes(chunk), slice |-> chunk,
                      upload_server |-> upload_server[1]])
              /\ u_pos' = u_pos + Len(chunk)
              /\ \E outcome \in SliceOutcomes :
                    /\ u_part_failed' = (u_part_failed \/ outcome # "ok")
                    /\ IF outcome = "raise"
                       THEN u_pc' = "raised" /\ UNCHANGED part_no
                       ELSE u_pc' = "slices" /\ part_no' = part_no + 1
  /\ UNCHANGED <<size, slice_size, server, poll_timeout_sec, u_resp, preuploadID,
                 real_slice, upload_server, total_parts, u_elapsed, u_ret,
                 u_completes, u_done>>
  /\ UNCHANGED notUp

\* the slice loop is over: start = time.time()
UpSlicesDone ==
  /\ u_pc = "slices"
  /\ LoopOver(part_no)
  /\ u_pc' = "poll"
  /\ UNCHANGED <<size, slice_size, server, poll_timeout_sec, u_resp, preuploadID,
                 real_slice, upload_server, total_parts, part_no, u_pos, u_elapsed,
                 u_ret, u_slices, u_part_failed, u_completes, u_done>>
  /\ UNCHANGED notUp

\* code != 0 and code != 20103
IsRejectedAny(code) == code # 0
IsRejected(code) == code # 0 /\ code # VerifyingCode

\* d and d.get("completed") and d.get("fileID", 0) != 0
IsCompleted(d) == d # None /\ d[1].completed /\ d[1].fileID # 0

\* time.time() - start > poll_timeout_sec
TimedOutLate(elapsed) == elapsed > poll_timeout_sec + PollInterval
TimedOut(elapsed) == elapsed > poll_timeout_sec

\* one iteration of the polling loop: sleep, upload_complete, the checks
UpPoll ==
  /\ u_pc = "poll"
  /\ \E done \in CompleteResponses, delay \in 0..MaxDelay :
       /\ u_elapsed' = u_elapsed + PollInterval + delay
       /\ u_completes' = u_completes + 1
       /\ u_done' = Some(done)
       /\ IF IsRejected(done.code)
          THEN u_pc' = "RuntimeError" /\ UNCHANGED u_ret
          ELSE IF IsCompleted(done.data)
          THEN u_pc' = "returned" /\ u_ret' = Some(done.data[1])
          ELSE IF TimedOut(u_elapsed')
          THEN u_pc' = "TimeoutError" /\ UNCHANGED u_ret
          ELSE u_pc' = "poll" /\ UNCHANGED u_ret
  /\ UNCHANGED <<size, slice_size, server, poll_timeout_sec, u_resp, preuploadID,
                 real_slice, upload_server, total_parts, part_no, u_pos, u_slices,
                 u_part_failed>>
  /\ UNCHANGED notUp

\* ---------------------------------------------------------------- claims
\* the data of the create response, when it carries one
CreateAnswered == u_pc \notin {"idle", "create"} /\ u_resp.code = 0 /\ u_resp.data # None

\* C14: when the create response reports instant reuse (reuse = true with a
\* non-zero fileID), upload_file_chunked returns that data with its file id
\* and issues no slice request and no upload_complete request.
C14_InstantReuse ==
  (CreateAnswered /\ u_resp.data[1].reuse /\ u_resp.data[1].fileID # 0) =>
     /\ u_pc = "returned"
     /\ u_ret = u_resp.data
     /\ u_ret[1].fileID = u_resp.data[1].fileID
     /\ u_slices = <<>>
     /\ u_completes = 0

\* a reuse answered by a response that carries a session as well
C14_Witness ==
  /\ u_pc = "returned"
  /\ u_resp.data # None
  /\ u_resp.data[1].reuse /\ u_resp.data[1].fileID # 0
  /\ u_resp.data[1].preuploadID # "" /\ u_resp.data[1].servers # <<>>
  /\ size > 1

\* a new upload session: create gave a preuploadID and a server was found
NewSession == preuploadID # "" /\ upload_server # None

\* ceil(size / real_slice), and part k of the file cut at real_slice bytes
CeilParts == CHOOSE n \in 0..size : n * real_slice >= size /\ (n - 1) * real_slice < size
PartBytes(k) ==
  LET lo == (k - 1) * real_slice
      hi == IF k * real_slice <= size THEN k * real_slice ELSE size
  IN  [i \in 1..(hi - lo) |-> lo + i]
ExpectedSlice(k) ==
  [preuploadID |-> u_resp.data[1].preuploadID,
   sliceNo |-> k,
   sliceMD5 |-> Md5Bytes(PartBytes(k)),
   slice |-> PartBytes(k),
   upload_server |-> upload_server[1]]

\* C15: in a new session for a file of size S > 0 with slice size L the
\* slice requests are numbered 1, 2, ..., ceil(S/L), each once; part k
\* carries the bytes [(k-1)*L, min(k*L, S)) and the MD5 of those bytes, all
\* with the same preuploadID and the same upload server.
C15_SliceNumbering ==
  NewSession =>
     /\ Len(u_slices) <= CeilParts
     /\ \A k \in 1..Len(u_slices) : u_slices[k] = ExpectedSlice(k)
     /\ u_pc \in {"poll", "returned", "RuntimeError", "TimeoutError"} =>
           Len(u_slices) = CeilParts

\* every part was sent, the last one shorter than the others
C15_Witness ==
  /\ NewSession
  /\ u_pc = "poll"
  /\ ~u_part_failed
  /\ Len(u_slices) >= 2
  /\ Len(u_slices[Len(u_slices)].slice) < real_slice
  /\ u_pos = size

\* C32: the backend calls of upload_file_chunked are ordered create, then
\* the slice requests, then upload_complete: the first upload_complete is
\* issued only after the slice request of every one of the ceil(size /
\* sliceSize) parts has returned, and no slice request is issued after it.
C32_CallOrder ==
  /\ []((u_slices # <<>> \/ u_completes > 0) => NewSession)
  /\ [](u_completes > 0 =>
          (Len(u_slices) = CeilParts /\ part_no = CeilParts + 1))
  /\ [][u_completes > 0 => u_slices' = u_slices]_vars

\* upload_complete was polled more than once after several parts
C32_Witness ==
  /\ NewSession
  /\ u_completes >= 2
  /\ Len(u_slices) >= 2
  /\ u_pc = "returned"

\* C16: if a slice request fails (it raises, or its response has a non-zero
\* code) the upload ends without success and upload_complete is never
\* issued for the session.
C16_PartFailureAborts ==
  u_part_failed => (u_completes = 0 /\ u_pc # "returned")

\* C17: in the completion phase code 20103 is not an error and leads to
\* another poll (as long as the polling goes on: no completed data, timeout
\* not elapsed); any other non-zero code ends the upload with a RuntimeError;
\* success is returned only for data with completed = true and a non-zero
\* fileID.
C17_CompletionCodes ==
  u_done # None =>
     LET r == u_done[1]
         complete == r.data # None /\ r.data[1].completed /\ r.data[1].fileID # 0
     IN  /\ r.code \notin {0, VerifyingCode} => u_pc = "RuntimeError"
         /\ r.code = VerifyingCode =>
               /\ u_pc # "RuntimeError"
               /\ (~complete /\ u_elapsed <= poll_timeout_sec) => u_pc = "poll"
         /\ u_pc = "returned" => (complete /\ u_ret = r.data)

\* the polling went on after a 20103 answer, and a second one came
C17_Witness ==
  /\ u_done # None
  /\ u_done[1].code = VerifyingCode
  /\ u_pc = "poll"
  /\ u_completes >= 2

\* C18: the polling does not run forever: it goes on only while
\* poll_timeout_sec has not elapsed and then stops with a TimeoutError, which
\* is not the RuntimeError of a rejected completion; the number of
\* upload_complete requests is at most timeout / 2 seconds, plus one.
C18_PollingBounded ==
  /\ u_completes <= (poll_timeout_sec \div PollInterval) + 1
  /\ (u_pc = "poll" /\ u_completes > 0) => u_elapsed <= poll_timeout_sec
  /\ u_pc = "TimeoutError" =>
        /\ u_elapsed > poll_timeout_sec
        /\ u_done[1].code \in {0, VerifyingCode}
        /\ u_ret = None

\* the timeout came after as many polls as the interval allows
C18_Witness ==
  /\ u_pc = "TimeoutError"
  /\ u_completes = (poll_timeout_sec \div PollInterval) + 1
  /\ u_completes >= 3

\* ======================================================================
\* Uploader.upload and Uploader.upload_folder: which uploader a file gets
\*
\* Only the choice is modelled: "chunked" is a call of upload_file_chunked,
\* "single" a call of upload_file_single that accepts the size, "failed" a
\* call of upload_file_single that raises ValueError for the size, which
\* _task turns into an error entry of the report.
\* ======================================================================
\* Uploader.upload: "size >= 10 * 1024 * 1024"
ChunkThreshold == 10485760
\* the default single_limit_bytes of upload_folder and upload_file_single:
\* 1 * 1024 * 1024 * 1024
SingleLimit == 1073741824

\* file sizes around the two limits
UpSizes == {ChunkThreshold - 1, ChunkThreshold, SingleLimit, SingleLimit + 1}

\* the default max_workers of upload_folder
DefaultWorkers == 4

DispStart ==
  /\ d_call \in {"upload", "upload_folder"}
  /\ IF d_call = "upload"
     THEN /\ d_is_dir \in BOOLEAN
          /\ method = "auto" /\ single_limit_bytes = SingleLimit
     ELSE /\ d_is_dir = TRUE
          /\ method \in {"single", "chunked", "auto"}
          /\ single_limit_bytes \in {ChunkThreshold, SingleLimit}
  /\ d_files \in UNION {[1..n -> UpSizes] : n \in 0..MaxUpFiles}
  /\ ~d_is_dir => Len(d_files) = 1
  /\ d_pc = "enter"
  /\ d_how = [i \in 1..Len(d_files) |-> ""]
  /\ d_workers \in (IF d_call = "upload" THEN {DefaultWorkers} ELSE 1..MaxUpWorkers)
  /\ d_running = {}
  /\ d_results = <<>>
  /\ d_report = None
  /\ d_end = [i \in 1..Len(d_files) |-> ""]

\* no upload in progress
DispIdle ==
  /\ d_call = "upload" /\ d_is_dir = FALSE /\ d_files = <<>>
  /\ method = "auto" /\ single_limit_bytes = SingleLimit
  /\ d_pc = "idle" /\ d_how = <<>>
  /\ d_workers = DefaultWorkers /\ d_running = {} /\ d_results = <<>>
  /\ d_report = None /\ d_end = <<>>

\* upload_file_single: "if size > single_limit_bytes: raise ValueError"
SingleCall(n, limit) == IF n > limit THEN "failed" ELSE "single"

\* Uploader.upload for a file
DirectChoice(n) ==
  IF n >= ChunkThreshold THEN "chunked" ELSE SingleCall(n, SingleLimit)

\* upload_folder._task for a file
TaskChoice(n) ==
  IF method = "chunked" \/ (method = "auto" /\ n > single_limit_bytes)
  THEN "chunked"
  ELSE SingleCall(n, single_limit_bytes)

\* Uploader.upload: a file is uploaded at once, a directory is handed to
\* upload_folder with its default method and limit; upload_folder called
\* directly submits its tasks
DispEnter ==
  /\ d_pc = "enter"
  /\ IF d_call = "upload" /\ ~d_is_dir
     THEN /\ d_how' = [d_how EXCEPT ![1] = DirectChoice(d_files[1])]
          /\ d_pc' = "done"
     ELSE /\ d_pc' = "pool"
          /\ UNCHANGED d_how
  /\ UNCHANGED <<d_call, d_is_dir, d_files, method, single_limit_bytes, d_workers,
                 d_running, d_results, d_report, d_end>>
  /\ UNCHANGED notDisp

\* a worker thread starts _task for one of the files, in any order, and
\* makes the choice of the uploader
DispTask ==
  /\ d_pc = "pool"
  /\ Cardinality(d_running) < d_workers
  /\ \E i \in 1..Len(d_files) :
       /\ d_how[i] = ""
       /\ d_how' = [d_how EXCEPT ![i] = TaskChoice(d_files[i])]
       /\ d_running' = d_running \cup {i}
  /\ UNCHANGED <<d_call, d_is_dir, d_files, method, single_limit_bytes, d_pc,
                 d_workers, d_results, d_report, d_end>>
  /\ UNCHANGED notDisp

\* what an uploader hands to _task: upload_file_chunked returns the data of
\* the completion or of the reuse, upload_file_single returns its response
\* envelope, and an exception becomes {"error": str(e)}
TaskItem(end) ==
  CASE end = "error" -> [error |-> "e"]
    [] end = "completed" -> [completed |-> TRUE, fileID |-> 7]
    [] end = "reuse" -> [reuse |-> TRUE, fileID |-> 7, preuploadID |-> ""]
    [] end = "single" -> [code |-> 0, data |-> [completed |-> TRUE, fileID |-> 7]]

\* the ways the upload of a file can end, by the uploader chosen
TaskEnds(how) ==
  CASE how = "chunked" -> {"error", "completed", "reuse"}
    [] how = "single" -> {"error", "single"}
    [] how = "failed" -> {"error"}

\* the _task of a file ends: as_completed yields its future and the result
\* is appended
DispTaskEnd ==
  /\ d_pc = "pool"
  /\ \E i \in d_running : \E end \in TaskEnds(d_how[i]) :
       /\ d_running' = d_running \ {i}
       /\ d_results' = Append(d_results, <<i, TaskItem(end)>>)
       /\ d_end' = [d_end EXCEPT ![i] = IF end = "single" THEN "completed" ELSE end]
  /\ UNCHANGED <<d_call, d_is_dir, d_files, method, single_limit_bytes, d_pc, d_how,
                 d_workers, d_report>>
  /\ UNCHANGED notDisp

\* dict.get(key, default)
Get(item, key, default) == IF key \in DOMAIN item THEN item[key] ELSE default

\* item.get("data") if isinstance(item.get("data"), dict) else item
InnerRaw(item) == item
Inner(item) == IF "data" \in DOMAIN item THEN item.data ELSE item

\* the normalised entry of one result
Normalized(item) ==
  IF "error" \in DOMAIN item
  THEN [code |-> 1, success |-> FALSE, data |-> None]
  ELSE LET inner == Inner(item)
           file_id == Get(inner, "fileID", 0)
           completed == Get(inner, "completed", FALSE)
           reuse == Get(inner, "reuse", FALSE)
           success == file_id # 0 /\ (completed \/ reuse)
       IN  [code |-> IF success THEN 0 ELSE 1, success |-> success,
            data |-> Some(inner)]

\* normalized, built from results in order: a later result of the same key
\* replaces an earlier one
RECURSIVE NormalizeAll(_, _)
NormalizeAll(results, acc) ==
  IF results = <<>> THEN acc
  ELSE LET r == Head(results)
           keys == DOMAIN acc \cup {r[1]}
       IN  NormalizeAll(Tail(results),
             [k \in keys |-> IF k = r[1] THEN Normalized(r[2]) ELSE acc[k]])

\* every future is done: upload_folder builds its report and returns
DispReturn ==
  /\ d_pc = "pool"
  /\ \A i \in 1..Len(d_files) : d_how[i] # ""
  /\ d_running = {}
  /\ LET normalized == NormalizeAll(d_results, <<>>)
         total == Cardinality(DOMAIN normalized)
         succeeded == Cardinality({k \in DOMAIN normalized : normalized[k].success})
     IN  d_report' = Some([code |-> 0, total |-> total, succeeded |-> succeeded,
                           failed |-> total - succeeded, data |-> normalized])
  /\ d_pc' = "done"
  /\ UNCHANGED <<d_call, d_is_dir, d_files, method, single_limit_bytes, d_how,
                 d_workers, d_running, d_results, d_end>>
  /\ UNCHANGED notDisp

\* ---------------------------------------------------------------- claims
\* C19: every file uploaded through Uploader.upload, given directly or as a
\* member of an uploaded directory, is dispatched by the same size rule:
\* chunked if and only if its size is at or above 10 MiB, single-shot
\* otherwise.
C19_SameSizeRule ==
  d_call = "upload" =>
     \A i \in 1..Len(d_files) :
        d_how[i] # "" =>
           d_how[i] = (IF d_files[i] >= 10 * 1024 * 1024 THEN "chunked" ELSE "single")

\* C20: in upload_folder with method = "single" a file larger than
\* single_limit_bytes is switched to chunked upload instead of being
\* rejected and recorded as a failed file.
C20_SingleSwitchesToChunked ==
  (d_call = "upload_folder" /\ method = "single") =>
     \A i \in 1..Len(d_files) :
        (d_how[i] # "" /\ d_files[i] > single_limit_bytes) => d_how[i] = "chunked"

GetStart ==
  /\ g_call \in {"download_folder", "download_file"}
  /\ overwrite \in BOOLEAN
  /\ g_files \in (IF g_call = "download_file" THEN {1} ELSE 0..MaxGetFiles)
  /\ g_local \in [1..g_files -> {"absent", "old"}]
  /\ g_pc = "loop"
  /\ g_next = 1 /\ g_succeeded = 0 /\ g_failed = 0 /\ g_results = <<>>
  /\ g_ret = None /\ g_finds = 0 /\ g_links = <<>> /\ g_transfers = <<>>

\* no download in progress
GetIdle ==
  /\ g_call = "download_folder" /\ overwrite = FALSE /\ g_files = 0
  /\ g_local = <<>> /\ g_pc = "idle"
  /\ g_next = 1 /\ g_succeeded = 0 /\ g_failed = 0 /\ g_results = <<>>
  /\ g_ret = None /\ g_finds = 0 /\ g_links = <<>> /\ g_transfers = <<>>

\* local_file_path.exists() and not overwrite
ShouldSkipNever(state) == FALSE
ShouldSkip(state) == state # "absent" /\ ~overwrite

\* the for loop after a file failed: "except Exception" counts the failure
\* and the loop goes on with the next file
NextAfterFailureNone(i) == g_files + 1
NextAfterFailure(i) == i + 1

\* how the download-link request and the transfer of a file end
LinkOutcomes == {"url", "nourl", "raise"}
TransferOutcomes == {"ok", "raise"}

\* download_folder: one iteration of "for file_info in files_to_download"
GetFile ==
  /\ g_call = "download_folder" /\ g_pc = "loop"
  /\ g_next <= g_files
  /\ LET i == g_next
     IN  IF ShouldSkip(g_local[i])
         THEN /\ g_succeeded' = g_succeeded + 1
              /\ g_results' = Append(g_results, [file |-> i, status |-> "skipped"])
              /\ g_next' = i + 1
              /\ UNCHANGED <<g_failed, g_links, g_transfers, g_local>>
         ELSE \E link \in LinkOutcomes, xfer \in TransferOutcomes :
              /\ g_links' = Append(g_links, i)
              /\ g_transfers' = IF link = "url" THEN Append(g_transfers, i)
                                ELSE g_transfers
              /\ IF link = "url" /\ xfer = "ok"
                 THEN /\ g_succeeded' = g_succeeded + 1
                      /\ g_results' = Append(g_results, [file |-> i, status |-> "success"])
                      /\ g_local' = [g_local EXCEPT ![i] = "new"]
                      /\ g_next' = i + 1
                      /\ UNCHANGED g_failed
                 ELSE /\ g_failed' = g_failed + 1
                      /\ g_results' = Append(g_results, [file |-> i, status |-> "failed"])
                      /\ g_next' = (IF link = "nourl" THEN i + 1 ELSE NextAfterFailure(i))
                      /\ UNCHANGED <<g_succeeded, g_local>>
  /\ UNCHANGED <<g_call, overwrite, g_files, g_pc, g_ret, g_finds>>
  /\ UNCHANGED notGet

\* download_folder returns its statistics: at once when files_to_download
\* is empty, else after the loop
GetReturn ==
  /\ g_call = "download_folder" /\ g_pc = "loop"
  /\ g_next > g_files
  /\ g_ret' = Some(IF g_files = 0
                   THEN [total |-> 0, succeeded |-> 0, failed |-> 0, files |-> <<>>]
                   ELSE [total |-> g_files, succeeded |-> g_succeeded,
                         failed |-> g_failed, files |-> g_results])
  /\ g_pc' = "returned"
  /\ UNCHANGED <<g_call, overwrite, g_files, g_local, g_next, g_succeeded, g_failed,
                 g_results, g_finds, g_links, g_transfers>>
  /\ UNCHANGED notGet

\* download_file: the existence check, the lookup, the link, the transfer
GetSingle ==
  /\ g_call = "download_file" /\ g_pc = "loop"
  /\ IF ShouldSkip(g_local[1])
     THEN /\ g_ret' = None
          /\ UNCHANGED <<g_finds, g_links, g_transfers, g_local>>
     ELSE \E found \in BOOLEAN, link \in LinkOutcomes \ {"raise"},
             xfer \in TransferOutcomes :
          /\ g_finds' = g_finds + 1
          /\ g_links' = IF found THEN <<1>> ELSE <<>>
          /\ g_transfers' = IF found /\ link = "url" THEN <<1>> ELSE <<>>
          /\ IF found /\ link = "url" /\ xfer = "ok"
             THEN g_ret' = Some([filename |-> 1]) /\ g_local' = [g_local EXCEPT ![1] = "new"]
             ELSE g_ret' = None /\ UNCHANGED g_local
  /\ g_pc' = "returned"
  /\ UNCHANGED <<g_call, overwrite, g_files, g_next, g_succeeded, g_failed, g_results>>
  /\ UNCHANGED notGet

\* ---------------------------------------------------------------- claims
\* C22: download_folder returns statistics with total = the number of
\* non-trashed files found in the subtree, succeeded + failed = total, and
\* one record per file; after each processed file succeeded + failed is the
\* number of files processed so far; a failed download-link request or a
\* failed transfer does not keep the remaining files from being attempted.
C22_DownloadStatistics ==
  g_call = "download_folder" =>
     /\ g_succeeded + g_failed = g_next - 1
     /\ Len(g_results) = g_next - 1
     /\ \A k \in 1..Len(g_results) : g_results[k].file = k
     /\ g_pc = "returned" =>
          /\ g_ret[1].total = g_files
          /\ g_ret[1].succeeded + g_ret[1].failed = g_ret[1].total
          /\ Len(g_ret[1].files) = g_files
          /\ \A k \in 1..g_files :
                /\ g_ret[1].files[k].file = k
                /\ g_ret[1].files[k].status = "skipped"
                     \/ \E j \in 1..Len(g_links) : g_links[j] = k

\* the link request of the first file raised, the transfer of the second
\* failed, and the last file was still downloaded
C22_Witness ==
  /\ g_call = "download_folder" /\ g_pc = "returned"
  /\ g_files = MaxGetFiles
  /\ g_links = [k \in 1..MaxGetFiles |-> k]
  /\ g_transfers = [k \in 1..(MaxGetFiles - 1) |-> k + 1]
  /\ g_ret[1].files[2].status = "failed"
  /\ g_ret[1].files[MaxGetFiles].status = "success"
  /\ g_ret[1].failed = 2

\* C23: with overwrite = false a file that exists at its local target path
\* is skipped: no download-link request and no transfer is issued for it and
\* the local file is left as it is (download_folder records it as
\* "skipped"); with overwrite = true the file is downloaded again.
C23_SkipExisting ==
  /\ g_call = "download_folder" =>
       \A i \in 1..Len(g_results) :
          LET requested == \E j \in 1..Len(g_links) : g_links[j] = i
              moved == \E j \in 1..Len(g_transfers) : g_transfers[j] = i
          IN  /\ (~overwrite /\ g_local[i] = "old") =>
                    (~requested /\ ~moved /\ g_results[i].status = "skipped")
              /\ overwrite => (requested /\ g_results[i].status # "skipped")
              /\ g_results[i].status = "success" => (moved /\ g_local[i] = "new")
  /\ (g_call = "download_file" /\ g_pc = "returned") =>
       /\ (~overwrite /\ g_local[1] = "old") =>
             (g_finds = 0 /\ g_links = <<>> /\ g_transfers = <<>> /\ g_ret = None)
       /\ overwrite => g_finds = 1
       /\ g_ret # None => (g_transfers = <<1>> /\ g_local[1] = "new")

\* a file that existed was skipped, and the next one was fetched
C23_Witness ==
  /\ g_call = "download_folder" /\ g_pc = "returned"
  /\ ~overwrite
  /\ g_files >= 2
  /\ g_results[1].status = "skipped" /\ g_local[1] = "old"
  /\ g_results[2].status = "success"
  /\ g_links = <<2>>

\* ======================================================================
\* FileList.ensure_remote_dir, _get_file_list_v2_by_part,
\* _find_in_list_by_name
\*
\* Two callers run ensure_remote_dir on the same path against one remote
\* tree. A listing request and a create request are one step each; the
\* steps of the two calls interleave freely.
\* ======================================================================
EnsCalls == {1, 2}

\* parts: the non-empty segments of the path
EnsPaths == {[i \in 1..n |-> SegmentAt(i)] : n \in 0..MaxEnsSegs}

RemoteEntry(id, parent, name, type, trashed) ==
  [fileId |-> id, parentFileId |-> parent, filename |-> name, type |-> type,
   trashed |-> trashed]

\* the remote trees before the calls: every entry lies under the root or
\* under an earlier directory
RECURSIVE EnsTrees(_)
EnsTrees(n) ==
  IF n = 0 THEN {<<>>}
  ELSE LET smaller == EnsTrees(n - 1)
           full == {t \in smaller : Len(t) = n - 1}
       IN  smaller \cup
           {Append(t, RemoteEntry(n, par, nm, ty, tr)) :
              t \in full,
              par \in 0..(n - 1), nm \in Names, ty \in {0, 1}, tr \in {0, 1}}

IsRemoteTree(t) ==
  \A k \in 1..Len(t) :
     t[k].parentFileId = 0 \/ t[t[k].parentFileId].type = 1

\* the backend's answer to list_v2(parentFileId, limit, lastFileId): the
\* entries of the parent after the cursor, at most limit of them, and the
\* cursor of the next page or -1
EnsRawPage(entries, parent, cursor) ==
  LET Under(e) == e.parentFileId = parent
                  /\ (cursor = None \/ e.fileId > cursor[1])
      rest == SelectSeq(entries, Under)
      page == SubSeq(rest, 1, IF Len(rest) < MaxEnsPage THEN Len(rest) ELSE MaxEnsPage)
  IN  [code |-> 0,
       data |-> [fileList |-> page,
                 lastFileId |-> IF Len(rest) <= MaxEnsPage THEN EndCursor
                                ELSE page[Len(page)].fileId]]

\* _find_in_list_by_name: the first item with that name, trashed == 0 and
\* the wanted type
FindInListAnyType(file_list, name, isdir) ==
  LET Hit(item) == item.filename = name /\ item.trashed = 0
      hits == SelectSeq(file_list, Hit)
  IN  IF hits = <<>> THEN None ELSE Some(hits[1].fileId)
FindInListNone(file_list, name, isdir) == None
FindInListByName(file_list, name, isdir) ==
  LET ctype == IF isdir THEN 1 ELSE 0
      Hit(item) == item.filename = name /\ item.trashed = 0 /\ item.type = ctype
      hits == SelectSeq(file_list, Hit)
  IN  IF hits = <<>> THEN None ELSE Some(hits[1].fileId)

\* last_file_id = data.get("lastFileId", -1)
NextCursorEnd(data) == EndCursor
NextCursor(data) == data.lastFileId

EnsStart ==
  /\ e_entries \in {t \in EnsTrees(MaxEnsInit) : IsRemoteTree(t)}
  /\ e_path \in EnsPaths
  /\ e_pc = [p \in EnsCalls |-> "idle"]
  /\ e_seg = [p \in EnsCalls |-> 1]
  /\ e_current_parent = [p \in EnsCalls |-> 0]
  /\ e_last_file_id = [p \in EnsCalls |-> None]
  /\ e_tries = [p \in EnsCalls |-> 0]
  /\ e_ret = [p \in EnsCalls |-> None]
  /\ e_init = Len(e_entries)
  /\ e_creates = <<>>
  /\ e_failures = [p \in EnsCalls |-> FALSE]
  /\ e_gaveup = [p \in EnsCalls |-> FALSE]
  /\ e_overlap = FALSE

\* no call of ensure_remote_dir
EnsIdle ==
  /\ e_entries = <<>>
  /\ e_path = <<>>
  /\ e_pc = [p \in EnsCalls |-> "off"]
  /\ e_seg = [p \in EnsCalls |-> 1]
  /\ e_current_parent = [p \in EnsCalls |-> 0]
  /\ e_last_file_id = [p \in EnsCalls |-> None]
  /\ e_tries = [p \in EnsCalls |-> 0]
  /\ e_ret = [p \in EnsCalls |-> None]
  /\ e_init = 0
  /\ e_creates = <<>>
  /\ e_failures = [p \in EnsCalls |-> FALSE]
  /\ e_gaveup = [p \in EnsCalls |-> FALSE]
  /\ e_overlap = FALSE

EnsRunning(p) == e_pc[p] \in {"lookup", "create"}

\* ensure_remote_dir is entered: "if not parts: return 0"
EnsCall(p) ==
  /\ e_pc[p] = "idle"
  /\ p = 1 \/ e_pc[1] # "idle"
  /\ IF e_path = <<>>
     THEN /\ e_pc' = [e_pc EXCEPT ![p] = "done"]
          /\ e_ret' = [e_ret EXCEPT ![p] = Some(0)]
     ELSE /\ e_pc' = [e_pc EXCEPT ![p] = "lookup"]
          /\ UNCHANGED e_ret
  /\ e_overlap' = (e_overlap \/ \E q \in EnsCalls \ {p} : EnsRunning(q))
  /\ UNCHANGED <<e_entries, e_path, e_seg, e_current_parent, e_last_file_id, e_tries,
                 e_init, e_creates, e_failures, e_gaveup>>
  /\ UNCHANGED notEns

\* current_parent = id; the for loop goes to the next part or the call
\* returns current_parent
EnsAdvance(p, id) ==
  /\ e_current_parent' = [e_current_parent EXCEPT ![p] = id]
  /\ e_last_file_id' = [e_last_file_id EXCEPT ![p] = None]
  /\ e_tries' = [e_tries EXCEPT ![p] = 0]
  /\ IF e_seg[p] = Len(e_path)
     THEN /\ e_pc' = [e_pc EXCEPT ![p] = "done"]
          /\ e_ret' = [e_ret EXCEPT ![p] = Some(id)]
          /\ UNCHANGED e_seg
     ELSE /\ e_pc' = [e_pc EXCEPT ![p] = "lookup"]
          /\ e_seg' = [e_seg EXCEPT ![p] = @ + 1]
          /\ UNCHANGED e_ret

\* _get_file_list_v2_by_part: one pass of "while tries < max_tries"
EnsList(p) ==
  /\ e_pc[p] = "lookup"
  /\ \/ \* 429, a bad response, fileList no list, an exception
        /\ \E kind \in FailKinds :
              /\ e_tries' = [e_tries EXCEPT ![p] = @ + 1]
              /\ e_failures' = [e_failures EXCEPT ![p] = TRUE]
              /\ IF e_tries[p] + 1 >= MaxEnsTries
                 THEN \* the loop ends: return None, found_id is None
                      /\ e_pc' = [e_pc EXCEPT ![p] = "create"]
                      /\ e_gaveup' = [e_gaveup EXCEPT ![p] = TRUE]
                 ELSE UNCHANGED <<e_pc, e_gaveup>>
        /\ UNCHANGED <<e_seg, e_current_parent, e_last_file_id, e_ret>>
     \/ \* an accepted page
        LET resjson == ListV2(EnsRawPage(e_entries, e_current_parent[p], e_last_file_id[p]))
            found_id == FindInListByName(resjson.data.fileList, e_path[e_seg[p]], TRUE)
        IN  /\ IF found_id # None
               THEN EnsAdvance(p, found_id[1])
               ELSE /\ e_tries' = [e_tries EXCEPT ![p] = 0]
                    /\ e_last_file_id' = [e_last_file_id EXCEPT ![p] = Some(NextCursor(resjson.data))]
                    /\ e_pc' = [e_pc EXCEPT ![p] =
                                   IF NextCursor(resjson.data) = EndCursor THEN "create" ELSE "lookup"]
                    /\ UNCHANGED <<e_seg, e_current_parent, e_ret>>
            /\ UNCHANGED <<e_failures, e_gaveup>>
  /\ UNCHANGED <<e_entries, e_path, e_init, e_creates, e_overlap>>
  /\ UNCHANGED notEns

\* found_id is None: self.file.mkdir(name=part, parentID=current_parent);
\* RuntimeError when the answer carries no dirID
EnsCreate(p) ==
  /\ e_pc[p] = "create"
  /\ \E answered \in BOOLEAN :
       LET dir_id == Len(e_entries) + 1
           part == e_path[e_seg[p]]
       IN  IF answered
           THEN /\ e_entries' = Append(e_entries,
                                       RemoteEntry(dir_id, e_current_parent[p], part, 1, 0))
                /\ e_creates' = Append(e_creates, [by |-> p, name |-> part,
                                                   parentID |-> e_current_parent[p],
                                                   dirID |-> dir_id])
                /\ EnsAdvance(p, dir_id)
                /\ UNCHANGED e_failures
           ELSE /\ e_creates' = Append(e_creates, [by |-> p, name |-> part,
                                                   parentID |-> e_current_parent[p],
                                                   dirID |-> 0])
                /\ e_pc' = [e_pc EXCEPT ![p] = "raised"]
                /\ e_failures' = [e_failures EXCEPT ![p] = TRUE]
                /\ UNCHANGED <<e_entries, e_seg, e_current_parent, e_last_file_id,
                               e_tries, e_ret>>
  /\ UNCHANGED <<e_path, e_init, e_gaveup, e_overlap>>
  /\ UNCHANGED notEns

\* ---------------------------------------------------------------- claims
\* the create requests of one call, in order
CreatesOf(p) == SelectSeq(e_creates, LAMBDA c : c.by = p)

\* a non-trashed directory of that name under that parent among the first
\* n entries of the tree
LiveDir(n, parent, name) ==
  \E k \in 1..n : /\ e_entries[k].parentFileId = parent
                  /\ e_entries[k].filename = name
                  /\ e_entries[k].type = 1
                  /\ e_entries[k].trashed = 0

\* C24: ensure_remote_dir on a path of n segments none of which exists
\* issues exactly n create-directory calls, the first under parent 0 and
\* each next one under the id the previous create returned, and returns the
\* id the last create returned.
C24_CreatesChain ==
  (/\ e_pc[1] = "done" /\ e_pc[2] = "idle"
   /\ e_path # <<>>
   /\ ~LiveDir(e_init, 0, e_path[1])) =>
     LET cs == CreatesOf(1)
         n == Len(e_path)
     IN  /\ Len(e_creates) = n
         /\ Len(cs) = n
         /\ cs[1].parentID = 0
         /\ \A k \in 1..n : cs[k].name = e_path[k] /\ cs[k].dirID # 0
         /\ \A k \in 1..(n - 1) : cs[k + 1].parentID = cs[k].dirID
         /\ e_ret[1] = Some(cs[n].dirID)

\* a path of MaxEnsSegs segments on an empty root
C24_Witness ==
  /\ e_pc[1] = "done" /\ e_pc[2] = "idle"
  /\ e_init = 0
  /\ Len(e_path) = MaxEnsSegs
  /\ Len(e_creates) = MaxEnsSegs
  /\ e_ret[1] = Some(MaxEnsSegs)

\* no request of either call failed and the calls did not overlap
EnsQuiet == ~e_overlap /\ \A p \in EnsCalls : ~e_failures[p]

\* C25: when nothing else changes the remote tree and no request fails, a
\* second ensure_remote_dir with the same path issues no create-directory
\* call and returns the id the first call returned; a segment that exists
\* as a non-trashed directory is never created again.
C25_Idempotent ==
  EnsQuiet =>
     /\ (e_pc[1] = "done" /\ e_pc[2] = "done") =>
           (CreatesOf(2) = <<>> /\ e_ret[2] = e_ret[1])
     /\ \A k \in 1..Len(e_creates) :
           ~LiveDir(e_creates[k].dirID - 1, e_creates[k].parentID, e_creates[k].name)

\* the first call created the whole chain, the second one found it
C25_Witness ==
  /\ EnsQuiet
  /\ e_pc[1] = "done" /\ e_pc[2] = "done"
  /\ Len(CreatesOf(1)) = MaxEnsSegs
  /\ e_ret[2] = Some(Len(e_entries))

\* two create requests of different calls for the same name under the same
\* parent, both answered
EnsTwins ==
  \E j, k \in 1..Len(e_creates) :
     /\ e_creates[j].by # e_creates[k].by
     /\ e_creates[j].name = e_creates[k].name
     /\ e_creates[j].parentID = e_creates[k].parentID
     /\ e_creates[j].dirID # 0 /\ e_creates[k].dirID # 0

\* C26: two ensure_remote_dir calls that run concurrently on the same path
\* can both see a segment as absent and both create it under the same
\* parent, which leaves two directories of the same name; without failed
\* requests this happens only when the calls overlap, and a call that saw
\* the segment absent issues its create without looking again.
C26_ConcurrentCreatorsRace ==
  /\ (EnsTwins /\ \A p \in EnsCalls : ~e_failures[p]) => e_overlap
  /\ \A p \in EnsCalls :
        (e_pc[p] = "create" /\ ~e_gaveup[p]) =>
           /\ e_last_file_id[p] = Some(EndCursor)
           /\ ENABLED EnsCreate(p)

\* both calls saw the first segment absent and both created it: two live
\* directories of that name under the root, no request failed
C26_Witness ==
  /\ \A p \in EnsCalls : ~e_failures[p]
  /\ EnsTwins
  /\ \E j, k \in (e_init + 1)..Len(e_entries) :
        /\ j # k
        /\ e_entries[j].filename = e_entries[k].filename
        /\ e_entries[j].parentFileId = 0 /\ e_entries[k].parentFileId = 0

\* C28: a failed or rate-limited listing is never reported as "not found":
\* ensure_remote_dir issues a create-directory call for a segment only when
\* no non-trashed directory of that name exists under the parent (one call,
\* nothing else changes the tree).
C28_CreateOnlyWhenAbsent ==
  e_pc[2] = "idle" =>
     \A k \in 1..Len(e_creates) :
        ~LiveDir(IF e_creates[k].dirID = 0 THEN Len(e_entries) ELSE e_creates[k].dirID - 1,
                 e_creates[k].parentID, e_creates[k].name)

\* ======================================================================
\* FileList.rapid, FileList._upload_one, Share123FileModel.normalize_path,
\* detect_and_convert_to_md5, File.trash
\*
\* An etag is described by what the checks of the code read of it: its
\* length, whether all its characters are hexadecimal digits, the number of
\* bytes its base64 decoding yields (-1: no base64), whether all its
\* characters are base62 digits, and the number of hexadecimal digits of its
\* base62 value.
\* ======================================================================
Md5Len == 32
Md5Bytes16 == 16
\* sizes are counted in MiB: 10 * 1024 * 1024 * 1024 bytes
SizeLimit == 10240
TrashLimit == 100
PageLimit == 100
Retries == 3

Etag(len, hex, b64, b62, b62hex) ==
  [len |-> len, hex |-> hex, b64 |-> b64, b62 |-> b62, b62hex |-> b62hex]

Etags ==
  { Etag(32, TRUE, 24, TRUE, 58),      \* an MD5 in hexadecimal
    Etag(32, FALSE, -1, TRUE, 58),     \* 32 characters, not hexadecimal
    Etag(32, FALSE, -1, FALSE, 0),     \* 32 characters, punctuation among them
    Etag(24, FALSE, 16, FALSE, 0),     \* base64 of 16 bytes
    Etag(22, FALSE, -1, TRUE, 32),     \* base62 of an MD5
    Etag(40, FALSE, 30, TRUE, 60),     \* base62, too large a value
    Etag(5, FALSE, -1, FALSE, 0),      \* neither
    Etag(0, FALSE, -1, FALSE, 0) }     \* empty

\* is_valid_md5: ^[a-f0-9]{32}$ on the lower-cased string
IsValidMd5(e) == e.len = Md5Len /\ e.hex

\* detect_and_convert_to_md5: Some(the MD5), or None when it raises
DetectAndConvertToMd5(e) ==
  IF e.len = 0 THEN None
  ELSE IF IsValidMd5(e) THEN Some(e)
  ELSE IF e.b64 = Md5Bytes16 THEN Some(Etag(Md5Len, TRUE, 24, TRUE, 58))
  ELSE IF e.b62 /\ e.b62hex <= Md5Len THEN Some(Etag(Md5Len, TRUE, 24, TRUE, 58))
  ELSE None

\* Share123FileModel(**item_data) with its validator normalize_path:
\* Some(the model), or None when the construction raises
NormalizePath(item) ==
  IF item.etag.len # Md5Len
  THEN LET etag == DetectAndConvertToMd5(item.etag)
       IN  IF etag # None /\ etag[1].len = Md5Len
           THEN (IF item.size >= SizeLimit THEN None
                 ELSE Some([item EXCEPT !.etag = etag[1]]))
           ELSE None
  ELSE IF item.size >= SizeLimit THEN None ELSE Some(item)

RapidItems == [etag : Etags, size : {0, 1, SizeLimit}]
RapidShapes == {"single", "list", "data", "files", "other"}

RapidStart ==
  /\ r_call \in {"rapid", "trash", "list_v2"}
  /\ IF r_call = "rapid"
     THEN /\ r_shape \in RapidShapes
          /\ r_items \in (CASE r_shape = "single" -> [1..1 -> RapidItems]
                            [] r_shape = "other" -> {<<>>}
                            [] OTHER -> SeqsUpTo(RapidItems, MaxRapidItems))
          /\ r_ids = 0
     ELSE /\ r_shape = "other" /\ r_items = <<>>
          /\ r_ids \in (IF r_call = "trash"
                        THEN {0, TrashLimit - 1, TrashLimit, TrashLimit + 1}
                        ELSE {-1, 0, 1, PageLimit, PageLimit + 1})
  /\ r_pc = "enter"
  /\ r_next = 1 /\ r_attempt = 1 /\ r_results = <<>> /\ r_ret = None
  /\ r_creates = <<>> /\ r_answers = <<>> /\ r_requests = 0

RapidIdle ==
  /\ r_call = "rapid" /\ r_shape = "other" /\ r_items = <<>> /\ r_ids = 0
  /\ r_pc = "idle"
  /\ r_next = 1 /\ r_attempt = 1 /\ r_results = <<>> /\ r_ret = None
  /\ r_creates = <<>> /\ r_answers = <<>> /\ r_requests = 0

\* rapid: the shape of data is told; ValueError for an unknown one
RapidEnter ==
  /\ r_call = "rapid" /\ r_pc = "enter"
  /\ r_pc' = IF r_shape = "other" THEN "raised" ELSE "items"
  /\ UNCHANGED <<r_call, r_shape, r_items, r_ids, r_next, r_attempt, r_results, r_ret,
                 r_creates, r_answers, r_requests>>
  /\ UNCHANGED notRapid

\* the codes of a create answer after which _upload_one tries again
RetryCodes == {401, 429, 5000, 1}
CreateCodes == {0, 429, 2}

\* _upload_one: "code in (401, 429, 5000, 1) and attempt < retries"
TriesAgainOnceMore(code, attempt) == code \in RetryCodes /\ attempt <= Retries
TriesAgain(code, attempt) == code \in RetryCodes /\ attempt < Retries

\* _upload_one: one attempt for the item r_next
UploadOne ==
  /\ r_call = "rapid" /\ r_pc = "items"
  /\ r_next <= Len(r_items)
  /\ LET i == r_next
         item == NormalizePath(r_items[i])
         Ends(ok) == /\ r_results' = Append(r_results, ok)
                     /\ r_next' = i + 1
                     /\ r_attempt' = 1
     IN  IF item = None \/ item[1].size <= 0
         THEN \* the model or the arguments of File2.create are refused
              /\ Ends(FALSE)
              /\ UNCHANGED <<r_creates, r_answers>>
         ELSE /\ r_creates' = Append(r_creates, i)
              /\ \E code \in CreateCodes \cup {-1}, reuse \in BOOLEAN :
                    IF code = -1
                    THEN /\ Ends(FALSE)                  \* _safe_create raised
                         /\ UNCHANGED r_answers
                    ELSE /\ r_answers' = Append(r_answers,
                                 [item |-> i, code |-> code, reuse |-> reuse])
                         /\ IF code = 0 THEN Ends(reuse)
                            ELSE IF TriesAgain(code, r_attempt)
                                 THEN /\ r_attempt' = r_attempt + 1
                                      /\ UNCHANGED <<r_results, r_next>>
                                 ELSE Ends(FALSE)
  /\ UNCHANGED <<r_call, r_shape, r_items, r_ids, r_pc, r_ret, r_requests>>
  /\ UNCHANGED notRapid

\* rapid returns its statistics
RapidReturn ==
  /\ r_call = "rapid" /\ r_pc = "items"
  /\ r_next > Len(r_items)
  /\ LET success_count == Cardinality({k \in 1..Len(r_results) : r_results[k]})
     IN  r_ret' = Some([results |-> r_results, success_count |-> success_count,
                        failure_count |-> Len(r_results) - success_count])
  /\ r_pc' = "returned"
  /\ UNCHANGED <<r_call, r_shape, r_items, r_ids, r_next, r_attempt, r_results,
                 r_creates, r_answers, r_requests>>
  /\ UNCHANGED notRapid

\* File.trash: sys.exit(1) for more than 100 ids, else the request
Trash ==
  /\ r_call = "trash" /\ r_pc = "enter"
  /\ IF r_ids > TrashLimit
     THEN r_pc' = "exited" /\ UNCHANGED r_requests
     ELSE r_pc' = "returned" /\ r_requests' = r_requests + 1
  /\ UNCHANGED <<r_call, r_shape, r_items, r_ids, r_next, r_attempt, r_results, r_ret,
                 r_creates, r_answers>>
  /\ UNCHANGED notRapid

\* File.list_v2: "if limit > 100 and limit < 0"
LimitRefused(limit) == limit > PageLimit /\ limit < 0

\* File.list_v2: sys.exit(1) for a refused limit, else the request
ListV2Limit ==
  /\ r_call = "list_v2" /\ r_pc = "enter"
  /\ IF LimitRefused(r_ids)
     THEN r_pc' = "exited" /\ UNCHANGED r_requests
     ELSE r_pc' = "returned" /\ r_requests' = r_requests + 1
  /\ UNCHANGED <<r_call, r_shape, r_items, r_ids, r_next, r_attempt, r_results, r_ret,
                 r_creates, r_answers>>
  /\ UNCHANGED notRapid

\* ---------------------------------------------------------------- claims
\* C36: File.list_v2 rejects a page limit above 100 or below 0 before it
\* sends a request.
C36_LimitRejected ==
  (r_call = "list_v2" /\ (r_ids > PageLimit \/ r_ids < 0) /\ r_pc # "enter") =>
     (r_pc = "exited" /\ r_requests = 0)

\* C37: _upload_one sends at most 3 create requests for an item, tries again
\* only after an answer with a code of {401, 429, 5000, 1}, stops at the first
\* answer with code 0 or any other code, and returns true exactly when an
\* answer had code 0 with reuse = true; so results holds one outcome per item
\* in input order and success_count + failure_count is the number of items.
C37_UploadOneOutcome ==
  /\ \A i \in 1..Len(r_items) :
        Cardinality({k \in 1..Len(r_creates) : r_creates[k] = i}) <= Retries
  /\ \A k \in 1..Len(r_creates) : k < Len(r_creates) => r_creates[k] <= r_creates[k + 1]
  /\ \A k \in 1..Len(r_answers) : \A j \in 1..Len(r_answers) :
        (k < j /\ r_answers[k].item = r_answers[j].item) =>
           r_answers[k].code \in RetryCodes
  /\ Len(r_results) = r_next - 1
  /\ \A i \in 1..Len(r_results) :
        r_results[i] <=> \E k \in 1..Len(r_answers) :
                           /\ r_answers[k].item = i
                           /\ r_answers[k].code = 0 /\ r_answers[k].reuse
  /\ (r_call = "rapid" /\ r_pc = "returned") =>
        /\ r_ret[1].results = r_results
        /\ Len(r_ret[1].results) = Len(r_items)
        /\ r_ret[1].success_count + r_ret[1].failure_count = Len(r_items)
        /\ r_ret[1].success_count =
              Cardinality({i \in 1..Len(r_items) : r_ret[1].results[i]})

C37_Witness ==
  /\ r_call = "rapid" /\ r_pc = "returned" /\ Len(r_items) = 2
  /\ r_ret[1].results = <<FALSE, TRUE>>
  /\ Cardinality({k \in 1..Len(r_creates) : r_creates[k] = 1}) = Retries
  /\ \E k \in 1..Len(r_answers) : r_answers[k].item = 2 /\ r_answers[k].code = 429

\* an etag that is an MD5 or can be decoded to one, and a size below 10 GiB
WellFormedEtag(e) ==
  \/ e.len = Md5Len /\ e.hex
  \/ e.len # 0 /\ e.b64 = Md5Bytes16
  \/ e.len # 0 /\ e.b62 /\ e.b62hex <= Md5Len
WellFormed(item) == WellFormedEtag(item.etag) /\ item.size < SizeLimit

\* C27: malformed input never leads to a backend request: rapid with an
\* unrecognised payload shape raises before any create request; an item
\* whose etag cannot be normalised to a 32-character MD5 or whose size is
\* >= 10 GiB is counted as a failure with no create request for it, and the
\* other items are still processed; File.trash with more than 100 ids
\* sends no request.
C27_MalformedInputNoRequest ==
  /\ (r_call = "rapid" /\ r_shape = "other" /\ r_pc # "enter") =>
        (r_pc = "raised" /\ r_creates = <<>>)
  /\ r_call = "rapid" =>
        \A i \in 1..Len(r_items) :
           ~WellFormed(r_items[i]) =>
              /\ \A k \in 1..Len(r_creates) : r_creates[k] # i
              /\ i <= Len(r_results) => ~r_results[i]
  /\ (r_call = "rapid" /\ r_pc = "returned") =>
        /\ Len(r_ret[1].results) = Len(r_items)
        /\ r_ret[1].failure_count >=
              Cardinality({i \in 1..Len(r_items) : ~WellFormed(r_items[i])})
  /\ (r_call = "trash" /\ r_ids > TrashLimit /\ r_pc # "enter") =>
        (r_pc = "exited" /\ r_requests = 0)

\* ======================================================================
\* FileList._save_json_safely and _shrink_name
\*
\* A file name is the sequence of its parts between the dots; the callers
\* pass "<timestamp>_<id>_<path>.json", where <path> may contain dots.
\* ======================================================================
\* what a file holds: the first k chunks of the document, the content the
\* destination had before, or what an earlier call left in a temporary file
Doc(k) == <<"doc", k>>
OldContent == <<"old", 0>>
StaleContent == <<"stale", 0>>

JsonNames == {<<"n", "json">>, <<"n", "b", "json">>, <<"n", "b", "c", "json">>}

\* Path.suffix and Path.stem of a name: the part after the last dot, unless
\* the name has no dot or only a leading one
HasSuffix(name) == Len(name) > 1 /\ ~(Len(name) = 2 /\ name[1] = "")
Stem(name) == IF HasSuffix(name) THEN SubSeq(name, 1, Len(name) - 1) ELSE name

\* _shrink_name: a name within max_bytes is kept; a longer one becomes
\* "<trimmed stem>_<hash><suffix>"
ShrinkName(name, long) ==
  IF ~long THEN name
  ELSE IF HasSuffix(name)
       THEN <<"trimmed_hash", name[Len(name)]>>
       ELSE <<"trimmed_hash">>

\* Path.with_suffix
SamePath(name, suffix) == name
WithSuffix(name, suffix) == Append(Stem(name), suffix)

SafePath == ShrinkName(s_name, s_long)
TempPath == WithSuffix(SafePath, "tmp")

SaveStart ==
  /\ s_name \in JsonNames
  /\ s_long \in BOOLEAN
  /\ s_doc \in 1..MaxChunks
  /\ \E d \in {None, Some(OldContent)}, t \in {None, Some(StaleContent)} :
        /\ s_fs = [p \in {SafePath, TempPath} |-> IF p = SafePath THEN d ELSE t]
        /\ s_before = d
  /\ s_pc = "start"
  /\ s_ret = None

SaveIdle ==
  /\ s_name = <<>> /\ s_long = FALSE /\ s_doc = 1
  /\ s_fs = <<>> /\ s_pc = "idle" /\ s_ret = None /\ s_before = None

SaveSame == UNCHANGED <<s_name, s_long, s_doc, s_before>>

\* "except IOError" / "except Exception": return False
SaveFails ==
  /\ s_pc' = "returned"
  /\ s_ret' = Some(FALSE)

\* safe_path.parent.mkdir(parents=True, exist_ok=True)
SaveMkdir ==
  /\ s_pc = "start"
  /\ \/ s_pc' = "open" /\ UNCHANGED s_ret
     \/ SaveFails
  /\ UNCHANGED s_fs
  /\ SaveSame
  /\ UNCHANGED notSave

\* open(temp_path, "w"): the file is created or emptied
SaveOpen ==
  /\ s_pc = "open"
  /\ \/ /\ s_fs' = [s_fs EXCEPT ![TempPath] = Some(Doc(0))]
        /\ s_pc' = "write"
        /\ UNCHANGED s_ret
     \/ SaveFails /\ UNCHANGED s_fs
  /\ SaveSame
  /\ UNCHANGED notSave

\* json.dump: one write of the document reaches the file, or fails
SaveWrite ==
  /\ s_pc = "write"
  /\ s_fs[TempPath][1][2] < s_doc
  /\ \/ /\ s_fs' = [s_fs EXCEPT ![TempPath] = Some(Doc(@[1][2] + 1))]
        /\ UNCHANGED <<s_pc, s_ret>>
     \/ SaveFails /\ UNCHANGED s_fs
  /\ SaveSame
  /\ UNCHANGED notSave

\* the with block is left: the file is closed with the whole document
SaveClose ==
  /\ s_pc = "write"
  /\ s_fs[TempPath][1][2] = s_doc
  /\ s_pc' = "rename"
  /\ UNCHANGED <<s_fs, s_ret>>
  /\ SaveSame
  /\ UNCHANGED notSave

\* temp_path.rename(safe_path): the destination takes the temporary file in
\* one step (or the rename fails, as on a platform that does not replace an
\* existing destination), then return True
SaveRename ==
  /\ s_pc = "rename"
  /\ \/ /\ s_fs' = [p \in DOMAIN s_fs |->
                       IF p = SafePath THEN s_fs[TempPath] ELSE None]
        /\ s_pc' = "returned"
        /\ s_ret' = Some(TRUE)
     \/ SaveFails /\ UNCHANGED s_fs
  /\ SaveSame
  /\ UNCHANGED notSave

\* KeyboardInterrupt (or the end of the process) at any point of the call
SaveInterrupt ==
  /\ s_pc \in {"start", "open", "write", "rename"}
  /\ s_pc' = "interrupted"
  /\ UNCHANGED <<s_fs, s_ret>>
  /\ SaveSame
  /\ UNCHANGED notSave

\* ---------------------------------------------------------------- claims
\* C35: at every point of _save_json_safely, an interruption or an error
\* at any step included, the destination is absent or holds its previous
\* content, or holds the complete document; its content changes only by
\* the rename of the temporary file.
C35_NoPartialDestination ==
  /\ [](s_pc # "idle" =>
          (s_fs[SafePath] = s_before \/ s_fs[SafePath] = Some(Doc(s_doc))))
  /\ [][(s_pc # "idle" /\ s_fs'[SafePath] # s_fs[SafePath]) =>
          (s_pc = "rename" /\ s_fs'[SafePath] = Some(Doc(s_doc)))]_vars
  /\ [](s_ret = Some(TRUE) => s_fs[SafePath] = Some(Doc(s_doc)))

\* the call was interrupted in the middle of the write: the temporary file
\* holds a part of the document, the destination its previous content
C35_Witness ==
  /\ s_pc = "interrupted"
  /\ s_doc = MaxChunks
  /\ s_fs[TempPath] = Some(Doc(1))
  /\ s_before = Some(OldContent) /\ s_fs[SafePath] = Some(OldContent)

\* ======================================================================
\* authtype.Jwt: the stored token and when it is fetched anew
\* ======================================================================
REFRESH_THRESHOLD == 60
MaxClock == 2

JwtTokens == {"t0", "t1"}
\* the times a token may expire at
ExpiryTimes == {0} \cup (REFRESH_THRESHOLD..(REFRESH_THRESHOLD + MaxClock + 1))
\* expiredAt of an answer: an ISO date (ok) of ts seconds, or anything else
Stamps == {[ok |-> FALSE, ts |-> 0]} \cup {[ok |-> TRUE, ts |-> t] : t \in ExpiryTimes}

\* what the token request meets: a transport error ("network"), a status
\* error ("http") or a JSON body {code, data: {code, accessToken, expiredAt}}
JwtAnswer(kind, code, dcode, accessToken, expiredAt) ==
  [kind |-> kind, code |-> code, dcode |-> dcode, accessToken |-> accessToken,
   expiredAt |-> expiredAt]
NoAnswer == JwtAnswer("none", 0, 0, "", [ok |-> FALSE, ts |-> 0])
JwtAnswers ==
  {JwtAnswer(k, 0, 0, "", [ok |-> FALSE, ts |-> 0]) : k \in {"network", "http"}}
  \cup {JwtAnswer("json", c, d, t, e) :
          c \in {0, 1}, d \in {0, 1}, t \in JwtTokens \cup {""}, e \in Stamps}

\* Jwt._get_key for a number: data.get(key) or data["data"].get(key) or ""
GetKey(top, nested) == IF top # 0 THEN top ELSE nested

\* datetime.fromisoformat(expiredAt).timestamp(): None for TypeError/ValueError
FromIsoFormat(expiredAt) == IF expiredAt.ok THEN Some(expiredAt.ts) ELSE None

\* Jwt._update_token: None when it raises AuthError, else Some(the two fields)
UpdateToken(data) ==
  LET code == GetKey(data.code, data.dcode)
      expires_in == FromIsoFormat(data.expiredAt)
  IN  IF code # 0 THEN None
      ELSE IF expires_in = None THEN None
      ELSE IF data.accessToken = "" THEN None
      ELSE Some(<<data.accessToken, expires_in[1]>>)

\* Jwt._fetch_token with Jwt._do_request: None when AuthError is raised
FetchToken(client, answer) ==
  IF ~client THEN None
  ELSE IF answer.kind # "json" THEN None
  ELSE UpdateToken(answer)

\* Jwt.is_token_valid
IsTokenValidLate(expires_at, now) == expires_at > now + REFRESH_THRESHOLD + 1
IsTokenValid(expires_at, now) == expires_at > now + REFRESH_THRESHOLD

JwtStart ==
  /\ j_client \in BOOLEAN
  /\ j_access_token \in {"", "t0"}
  /\ j_expires_at \in ExpiryTimes
  /\ j_env = <<j_access_token, j_expires_at>>
  /\ j_now = 0
  /\ j_pc = "ready"
  /\ j_last = None

JwtIdle ==
  /\ j_client = FALSE /\ j_access_token = "" /\ j_expires_at = 0
  /\ j_env = <<"", 0>> /\ j_now = 0 /\ j_pc = "idle" /\ j_last = None

\* one call: the token is fetched (fetch) or not, and the call is recorded
JwtCall(op, fetch, answer) ==
  LET got == FetchToken(j_client, answer)
      before == <<j_access_token, j_expires_at>>
      after == IF fetch /\ got # None THEN got[1] ELSE before
  IN  /\ j_access_token' = after[1]
      /\ j_expires_at' = after[2]
      /\ j_env' = IF fetch /\ got # None THEN after ELSE j_env
      /\ j_last' = Some([op |-> op, fetched |-> fetch, answer |-> answer,
                         raised |-> (fetch /\ got = None) \/ after[1] = "",
                         before |-> before, at |-> j_now])
      /\ UNCHANGED <<j_client, j_now, j_pc>>
      /\ UNCHANGED notJwt

\* Jwt.get_access_token with Jwt._get_token_if_needed
JwtGetAccessToken ==
  /\ j_pc = "ready"
  /\ IF j_access_token = "" \/ ~IsTokenValid(j_expires_at, j_now)
     THEN \E answer \in JwtAnswers : JwtCall("get_access_token", TRUE, answer)
     ELSE JwtCall("get_access_token", FALSE, NoAnswer)

\* Jwt.refresh_token
JwtRefreshToken ==
  /\ j_pc = "ready"
  /\ \E answer \in JwtAnswers : JwtCall("refresh_token", TRUE, answer)

\* time passes
JwtTick ==
  /\ j_pc = "ready"
  /\ j_now < MaxClock
  /\ j_now' = j_now + 1
  /\ UNCHANGED <<j_client, j_access_token, j_expires_at, j_env, j_pc, j_last>>
  /\ UNCHANGED notJwt

\* ---------------------------------------------------------------- claims
\* the answer is a body with code 0, an access token and a readable date
WholeAnswerValid(a) ==
  /\ a.kind = "json" /\ a.code = 0 /\ a.dcode = 0
  /\ a.accessToken # "" /\ a.expiredAt.ok

\* a fetch that failed left both fields as they were; the fields differ from
\* what they were before the last call only when its whole answer was valid,
\* and then both hold the values of that answer
FetchFrame(l) ==
  /\ (l.fetched /\ ~(j_client /\ WholeAnswerValid(l.answer))) =>
        (<<j_access_token, j_expires_at>> = l.before /\ l.raised)
  /\ (<<j_access_token, j_expires_at>> # l.before) =>
        /\ l.fetched /\ j_client /\ WholeAnswerValid(l.answer)
        /\ j_access_token = l.answer.accessToken
        /\ j_expires_at = l.answer.expiredAt.ts
  /\ (l.fetched /\ j_client /\ WholeAnswerValid(l.answer)) =>
        /\ j_access_token = l.answer.accessToken
        /\ j_expires_at = l.answer.expiredAt.ts
  /\ j_env = <<j_access_token, j_expires_at>>

\* no token was stored or the stored one expired within the threshold
FetchWasDue(l) == l.before[1] = "" \/ l.before[2] - l.at <= REFRESH_THRESHOLD

\* C38 as amended: a failed token fetch leaves access_token and expires_at at
\* their previous values, the two fields are updated only together after the
\* whole answer is validated, and get_access_token fetches a new token only
\* when none is stored or the stored one expires within REFRESH_THRESHOLD
\* seconds (refresh_token fetches whenever it is called).
C38_FetchFrameAmended ==
  j_last # None =>
     /\ FetchFrame(j_last[1])
     /\ (j_last[1].op = "get_access_token" /\ j_last[1].fetched) => FetchWasDue(j_last[1])
     /\ (j_last[1].op = "get_access_token" /\ ~j_last[1].fetched) => ~FetchWasDue(j_last[1])

\* C38: a failed token fetch leaves access_token and expires_at at their
\* previous values, the two fields are updated only together after the whole
\* answer is validated, and a new token is fetched only when none is stored
\* or the stored one expires within REFRESH_THRESHOLD seconds.
C38_FetchFrame ==
  j_last # None =>
     /\ FetchFrame(j_last[1])
     /\ j_last[1].fetched => FetchWasDue(j_last[1])

\* get_access_token met a token that expires in exactly REFRESH_THRESHOLD
\* seconds, fetched, and the answer lacked the access token
C38_Witness ==
  /\ j_last # None
  /\ j_last[1].op = "get_access_token" /\ j_last[1].fetched
  /\ j_last[1].at = 1
  /\ j_last[1].before = <<"t0", REFRESH_THRESHOLD + 1>>
  /\ j_last[1].answer.kind = "json" /\ j_last[1].answer.code = 0
  /\ j_last[1].answer.accessToken = "" /\ j_last[1].answer.expiredAt.ok
  /\ j_access_token = "t0" /\ j_expires_at = REFRESH_THRESHOLD + 1

\* ======================================================================
\* Downloader.download, download_file, download_folder: the cloud path a
\* remote path is resolved to. A path string is a sequence of characters.
\* ======================================================================
MaxPathLen == 4
PathChars == {"/", ".", "a"}
RemotePaths == UNION {[1..n -> PathChars] : n \in 0..MaxPathLen}

\* the segments of a string between its "/" characters
RECURSIVE Segments(_)
Segments(str) ==
  IF str = <<>> THEN <<<<>>>>
  ELSE LET rest == Segments(Tail(str))
       IN  IF Head(str) = "/" THEN <<<<>>>> \o rest
           ELSE <<<<Head(str)>> \o Head(rest)>> \o Tail(rest)

\* PurePosixPath(str): anchored at the root or not, and the parts; empty
\* segments and "." are dropped, every other segment is kept
IsName(seg) == seg # <<>> /\ seg # <<".">>
PosixPath(str) ==
  [root |-> (str # <<>> /\ Head(str) = "/"), parts |-> SelectSeq(Segments(str), IsName)]

\* str(path)
RECURSIVE JoinNames(_)
JoinNames(names) ==
  IF names = <<>> THEN <<>>
  ELSE IF Len(names) = 1 THEN Head(names)
  ELSE Head(names) \o <<"/">> \o JoinNames(Tail(names))
PosixStr(path) ==
  IF path.root THEN <<"/">> \o JoinNames(path.parts)
  ELSE IF path.parts = <<>> THEN <<".">>
  ELSE JoinNames(path.parts)

\* str.lstrip(chars): every leading character of the set is removed
RECURSIVE Lstrip(_, _)
Lstrip(str, chars) ==
  IF str # <<>> /\ Head(str) \in chars THEN Lstrip(Tail(str), chars) ELSE str

\* the leading "./" of a string is removed, nothing else
DropDotSlash(str) ==
  IF Len(str) >= 2 /\ str[1] = "." /\ str[2] = "/" THEN SubSeq(str, 3, Len(str)) ELSE str

\* path.suffix is not empty: the last part has a "." that is neither its
\* first nor its last character
HasExtension(path) ==
  /\ path.parts # <<>>
  /\ LET name == path.parts[Len(path.parts)]
     IN  \E i \in 2..(Len(name) - 1) :
            name[i] = "." /\ \A k \in (i + 1)..Len(name) : name[k] # "."

\* cloud_path: PurePosixPath(remote_path), and for a relative one
\* PurePosixPath("/") / str(cloud_path).lstrip("./")
CloudPath(remote_path) ==
  LET path == PosixPath(remote_path)
  IN  IF path.root THEN path
      ELSE PosixPath(<<"/">> \o Lstrip(PosixStr(path), {".", "/"}))

PathStart ==
  /\ p_call \in {"download", "download_file", "download_folder"}
  /\ p_remote \in RemotePaths
  /\ p_cloud = None
  /\ p_pc = "enter"

PathIdle ==
  /\ p_call = "download" /\ p_remote = <<>> /\ p_cloud = None /\ p_pc = "idle"

\* download_file up to "if not cloud_path.suffix: raise ValueError"
PathDownloadFile ==
  /\ p_call = "download_file" /\ p_pc = "enter"
  /\ p_cloud' = Some(CloudPath(p_remote))
  /\ p_pc' = IF HasExtension(CloudPath(p_remote)) THEN "resolved" ELSE "ValueError"
  /\ UNCHANGED <<p_call, p_remote>>
  /\ UNCHANGED notPath

\* download_folder up to its two checks of cloud_path
PathDownloadFolder ==
  /\ p_call = "download_folder" /\ p_pc = "enter"
  /\ p_cloud' = Some(CloudPath(p_remote))
  /\ p_pc' = IF HasExtension(CloudPath(p_remote)) \/ CloudPath(p_remote).parts = <<>>
             THEN "ValueError" ELSE "resolved"
  /\ UNCHANGED <<p_call, p_remote>>
  /\ UNCHANGED notPath

\* download up to its first _find_file_by_path(cloud_path, ...)
PathDownload ==
  /\ p_call = "download" /\ p_pc = "enter"
  /\ p_cloud' = Some(CloudPath(p_remote))
  /\ p_pc' = "resolved"
  /\ UNCHANGED <<p_call, p_remote>>
  /\ UNCHANGED notPath

\* ---------------------------------------------------------------- claims
\* C39: download, download_file and download_folder resolve a relative
\* remote path p to "/" followed by p with only a leading "./" removed, so
\* every segment name of p, also one that begins with a dot, is kept as it is.
C39_SegmentsPreserved ==
  (p_cloud # None /\ ~PosixPath(p_remote).root) =>
     p_cloud[1] = PosixPath(<<"/">> \o DropDotSlash(p_remote))

\* ======================================================================
\* specifications
\* ======================================================================
InitList == ListStart /\ FindIdle /\ WalkIdle /\ DlIdle /\ UpIdle /\ DispIdle /\ GetIdle /\ EnsIdle /\ RapidIdle /\ SaveIdle /\ JwtIdle /\ PathIdle
NextList ==
  \/ ListPage
  \/ ListFailedAttempt
  \/ ListLoopExit
  \/ ListReturn
SpecList == InitList /\ [][NextList]_vars

InitFind == FindStart /\ ListIdle /\ WalkIdle /\ DlIdle /\ UpIdle /\ DispIdle /\ GetIdle /\ EnsIdle /\ RapidIdle /\ SaveIdle /\ JwtIdle /\ PathIdle
NextFind ==
  \/ FindRequest
  \/ FindRevealRest
SpecFind == InitFind /\ [][NextFind]_vars

InitWalk == WalkStart /\ ListIdle /\ FindIdle /\ DlIdle /\ UpIdle /\ DispIdle /\ GetIdle /\ EnsIdle /\ RapidIdle /\ SaveIdle /\ JwtIdle /\ PathIdle
NextWalk ==
  \/ WalkEnter
  \/ V1Recurse
  \/ V1Return
  \/ SeqStep
  \/ WorkerFinish
  \/ PoolCollect
SpecWalk == InitWalk /\ [][NextWalk]_vars
SpecWalkFair == SpecWalk /\ WF_vars(NextWalk)

NextWalkInt ==
  \/ WalkEnter
  \/ V1Recurse
  \/ V1Return
  \/ SeqStep
  \/ WorkerFinish
  \/ PoolCollect
  \/ WalkInterrupt
  \/ ShutdownFinish
SpecWalkInt == InitWalk /\ [][NextWalkInt]_vars

InitUp == UpStart /\ ListIdle /\ FindIdle /\ WalkIdle /\ DlIdle /\ DispIdle /\ GetIdle /\ EnsIdle /\ RapidIdle /\ SaveIdle /\ JwtIdle /\ PathIdle
NextUp ==
  \/ UpCreate
  \/ UpSlice
  \/ UpSlicesDone
  \/ UpPoll
SpecUp == InitUp /\ [][NextUp]_vars

InitDisp ==
  DispStart /\ ListIdle /\ FindIdle /\ WalkIdle /\ DlIdle /\ UpIdle /\ GetIdle /\ EnsIdle
  /\ RapidIdle /\ SaveIdle /\ JwtIdle /\ PathIdle
NextDisp ==
  \/ DispEnter
  \/ DispTask
  \/ DispTaskEnd
  \/ DispReturn
SpecDisp == InitDisp /\ [][NextDisp]_vars

InitGet ==
  GetStart /\ ListIdle /\ FindIdle /\ WalkIdle /\ DlIdle /\ UpIdle /\ DispIdle /\ EnsIdle
  /\ RapidIdle /\ SaveIdle /\ JwtIdle /\ PathIdle
NextGet ==
  \/ GetFile
  \/ GetReturn
  \/ GetSingle
SpecGet == InitGet /\ [][NextGet]_vars

InitEns ==
  EnsStart /\ ListIdle /\ FindIdle /\ WalkIdle /\ DlIdle /\ UpIdle /\ DispIdle /\ GetIdle
  /\ RapidIdle /\ SaveIdle /\ JwtIdle /\ PathIdle
NextEns ==
  \/ \E p \in EnsCalls : EnsCall(p)
  \/ \E p \in EnsCalls : EnsList(p)
  \/ \E p \in EnsCalls : EnsCreate(p)
SpecEns == InitEns /\ [][NextEns]_vars

InitRapid ==
  RapidStart /\ ListIdle /\ FindIdle /\ WalkIdle /\ DlIdle /\ UpIdle /\ DispIdle /\ GetIdle
  /\ EnsIdle /\ SaveIdle /\ JwtIdle /\ PathIdle
NextRapid ==
  \/ RapidEnter
  \/ UploadOne
  \/ RapidReturn
  \/ Trash
  \/ ListV2Limit
SpecRapid == InitRapid /\ [][NextRapid]_vars

InitSave ==
  SaveStart /\ ListIdle /\ FindIdle /\ WalkIdle /\ DlIdle /\ UpIdle /\ DispIdle /\ GetIdle
  /\ EnsIdle /\ RapidIdle /\ JwtIdle /\ PathIdle
NextSave ==
  \/ SaveMkdir
  \/ SaveOpen
  \/ SaveWrite
  \/ SaveClose
  \/ SaveRename
  \/ SaveInterrupt
SpecSave == InitSave /\ [][NextSave]_vars

InitJwt ==
  JwtStart /\ ListIdle /\ FindIdle /\ WalkIdle /\ DlIdle /\ UpIdle /\ DispIdle /\ GetIdle
  /\ EnsIdle /\ RapidIdle /\ SaveIdle /\ PathIdle
NextJwt ==
  \/ JwtGetAccessToken
  \/ JwtRefreshToken
  \/ JwtTick
SpecJwt == InitJwt /\ [][NextJwt]_vars

InitPath ==
  PathStart /\ ListIdle /\ FindIdle /\ WalkIdle /\ DlIdle /\ UpIdle /\ DispIdle /\ GetIdle
  /\ EnsIdle /\ RapidIdle /\ SaveIdle /\ JwtIdle
NextPath ==
  \/ PathDownloadFile
  \/ PathDownloadFolder
  \/ PathDownload
SpecPath == InitPath /\ [][NextPath]_vars

InitDl == DlStart /\ ListIdle /\ FindIdle /\ WalkIdle /\ UpIdle /\ DispIdle /\ GetIdle /\ EnsIdle /\ RapidIdle /\ SaveIdle /\ JwtIdle /\ PathIdle
NextDl ==
  \/ DlEnter
  \/ DlItem
  \/ DlReturn
  \/ DlFilter
SpecDl == InitDl /\ [][NextDl]_vars

============================================================================
